---- MODULE Spec2Model ----
(***************************************************************************)
(* A model of the Capybara Go damage simulator (src/model).                *)
(*                                                                         *)
(* Number conventions.  The program computes with Python floats.  Here     *)
(* every multiplier, coefficient and bonus is an integer number of         *)
(* hundredths (1.15 is 115, 0.06 is 6), every probability an integer       *)
(* number of ten-thousandths (0.8336 is 8336), and every damage amount an  *)
(* exact integer number of 10^-12 damage units, held as a sequence of      *)
(* base-10000 limbs, least significant first, because the products exceed  *)
(* the 32-bit integers of the model checker.  Every limb is in 0..9999     *)
(* except that a negative amount ends in a limb -1: <<6000, 9997, -1>> is  *)
(* 6000 + 9997 * 10^4 - 10^8 = -24000.  Arithmetic is exact: float         *)
(* rounding is not modelled.                                               *)
(***************************************************************************)
EXTENDS Integers, Sequences, FiniteSets, TLC

\* ------------------------------------------------------------------------
\* Exact arithmetic on damage amounts
\* ------------------------------------------------------------------------

RECURSIVE BigOfNat(_)
BigOfNat(n) ==
    IF n = 0 THEN <<>>
    ELSE IF n = -1 THEN << -1 >>
    ELSE <<n % 10000>> \o BigOfNat(n \div 10000)

RECURSIVE BigAddC(_, _, _)
BigAddC(a, b, c) ==
    IF a = <<>> /\ b = <<>> THEN BigOfNat(c)
    ELSE LET x == IF a = <<>> THEN 0 ELSE Head(a)
             y == IF b = <<>> THEN 0 ELSE Head(b)
             s == x + y + c
         IN  <<s % 10000>> \o BigAddC(IF a = <<>> THEN <<>> ELSE Tail(a),
                                      IF b = <<>> THEN <<>> ELSE Tail(b),
                                      s \div 10000)

BigAdd(a, b) == BigAddC(a, b, 0)

RECURSIVE BigMulC(_, _, _)
BigMulC(a, k, c) ==
    IF a = <<>> THEN BigOfNat(c)
    ELSE LET p == Head(a) * k + c
         IN  <<p % 10000>> \o BigMulC(Tail(a), k, p \div 10000)

\* a * k for an integer k small enough that a limb times k fits an integer
BigMul(a, k) == IF k = 0 THEN <<>> ELSE BigMulC(a, k, 0)

RECURSIVE BigNorm(_)
BigNorm(a) ==
    IF a = <<>> THEN a
    ELSE IF a[Len(a)] = 0 THEN BigNorm(SubSeq(a, 1, Len(a) - 1))
    ELSE IF Len(a) >= 2 /\ a[Len(a)] = -1 /\ a[Len(a) - 1] = 9999
    THEN BigNorm(SubSeq(a, 1, Len(a) - 2) \o << -1 >>)
    ELSE a

RECURSIVE BigDivR(_, _, _, _)
BigDivR(a, d, i, rem) ==
    IF i = 0 THEN <<>>
    ELSE LET cur == rem * 10000 + a[i]
         IN  BigDivR(a, d, i - 1, cur % d) \o <<cur \div d>>

\* a / d rounded down (exact wherever the model uses it)
BigDiv(a, d) == BigNorm(BigDivR(a, d, Len(a), 0))

\* a - b
BigSub(a, b) == BigNorm(BigAdd(a, BigMul(b, -1)))

\* a < 0
BigNegative(a) == BigNorm(a) # <<>> /\ BigNorm(a)[Len(BigNorm(a))] < 0

BigLess(a, b) == BigNegative(BigSub(a, b))

BigLeq(a, b) == ~BigLess(b, a)

\* n whole damage units as a damage amount (n * 10^12)
Dmg(n) == IF n = 0 THEN <<>> ELSE <<0, 0, 0>> \o BigOfNat(n)

\* ------------------------------------------------------------------------
\* Constants and basic types (core.py)
\* ------------------------------------------------------------------------

ATK_BASE == 1000
K_BASIC == 12
K_SKILL == 50

DamageType ==
    [ BASIC |-> "basic", DRAGON_FLAME |-> "dragon_flame",
      DRAGON_BREATH |-> "dragon_breath", OTHER_SKILL |-> "other_skill",
      NINJUTSU |-> "ninjutsu", HURRICANE |-> "hurricane",
      ULTIMATE |-> "ultimate" ]

\* An attribute the dataclass does not declare is the empty set until
\* something assigns it, and {v} once it holds v: reading it while empty
\* raises AttributeError.
Absent == {}

\* BattleState() with the dataclass defaults.  lightning_as_demonic and
\* daji_bolt_coeff_bonus are read by the lightning skills, and the daji_*
\* attributes and dynamic_global_demonic_bonus by DajiFormEffect, but none of
\* them is a field of the dataclass: each is Absent until something assigns
\* it, and {v} once it holds v.
BattleState ==
    [ round_index |-> 1,
      dragon_stacks |-> 0,
      breath_global_next |-> 0, breath_dragon_next |-> 0,
      breath_global_this |-> 0, breath_dragon_this |-> 0,
      combo_stacks |-> 0,
      base_global_bonus |-> 0, base_inbattle_bonus |-> 0,
      base_final_bonus |-> 0,
      base_global_lightning_bonus |-> 0, base_global_skill_bonus |-> 0,
      base_global_ninjutsu_bonus |-> 0,
      base_final_skill_bonus |-> 0, base_final_lightning_bonus |-> 0,
      base_inbattle_basic_bonus |-> 0, base_inbattle_skill_bonus |-> 0,
      base_inbattle_lightning_bonus |-> 0,
      lightning_charge_step |-> 0, lightning_charge_stacks |-> 0,
      dynamic_inbattle_lightning_bonus |-> 0,
      temp_final_lightning_bonus |-> 0,
      dynamic_global_ninjutsu_bonus |-> 0,
      lightning_as_ninjutsu |-> FALSE,
      dmg_basic |-> <<>>, dmg_flame |-> <<>>, dmg_breath |-> <<>>,
      dmg_other |-> <<>>, dmg_bolt |-> <<>>, dmg_artifact |-> <<>>,
      dmg_ninjutsu |-> <<>>, dmg_hurricane |-> <<>>, dmg_ultimate |-> <<>>,
      rng |-> 0,
      debug |-> FALSE, debug_logs |-> <<>>,
      lightning_as_demonic |-> Absent,
      daji_bolt_coeff_bonus |-> Absent,
      daji_fox_form_active |-> Absent,
      daji_fox_form_expires_after_round |-> Absent,
      daji_fox_first_skill_pending |-> Absent,
      daji_aura_stacks |-> Absent,
      dynamic_global_demonic_bonus |-> Absent ]

Buckets ==
    { "dmg_basic", "dmg_flame", "dmg_breath", "dmg_other", "dmg_bolt",
      "dmg_artifact", "dmg_ninjutsu", "dmg_hurricane", "dmg_ultimate" }

\* HitContext(damage_type, coeff) with the dataclass defaults
HitContext(damage_type, coeff) ==
    [ damage_type |-> damage_type, coeff |-> coeff,
      is_basic |-> FALSE, is_combo |-> FALSE, hit_index_in_round |-> 1,
      atk_base |-> ATK_BASE, atk_mult_adventurer |-> 100,
      atk_mult_buff |-> 100,
      global_bonus |-> 0, inbattle_bonus |-> 0, final_bonus |-> 0,
      tags |-> {}, damage_done |-> <<>> ]

\* ------------------------------------------------------------------------
\* Core damage computation (core.py, compute_hit_damage)
\* ------------------------------------------------------------------------

DamageConstant_Swapped(damage_type) ==
    IF damage_type = DamageType.BASIC THEN K_SKILL ELSE K_BASIC

DamageConstant(damage_type) ==
    IF damage_type = DamageType.BASIC THEN K_BASIC ELSE K_SKILL

TagBonus(ctx, tag, bonus) == IF tag \in ctx.tags THEN bonus ELSE 0

GlobalTotal_NoTagTest(ctx, state) ==
    ctx.global_bonus + state.base_global_bonus
    + state.base_global_skill_bonus
    + state.base_global_lightning_bonus
    + state.base_global_ninjutsu_bonus + state.dynamic_global_ninjutsu_bonus

GlobalTotal(ctx, state) ==
    ctx.global_bonus + state.base_global_bonus
    + TagBonus(ctx, "skill", state.base_global_skill_bonus)
    + TagBonus(ctx, "lightning", state.base_global_lightning_bonus)
    + TagBonus(ctx, "ninjutsu", state.base_global_ninjutsu_bonus
                                + state.dynamic_global_ninjutsu_bonus)

InbattleTotal(ctx, state) ==
    ctx.inbattle_bonus + state.base_inbattle_bonus
    + TagBonus(ctx, "basic", state.base_inbattle_basic_bonus)
    + TagBonus(ctx, "skill", state.base_inbattle_skill_bonus)
    + TagBonus(ctx, "lightning", state.base_inbattle_lightning_bonus
                                 + state.dynamic_inbattle_lightning_bonus)

FinalTotal(ctx, state) ==
    ctx.final_bonus + state.base_final_bonus
    + TagBonus(ctx, "skill", state.base_final_skill_bonus)
    + TagBonus(ctx, "lightning", state.base_final_lightning_bonus
                                 + state.temp_final_lightning_bonus)

\* atk_eff, in units of 10^-4
AtkEff(ctx) ==
    BigMul(BigMul(BigOfNat(ctx.atk_base), ctx.atk_mult_adventurer),
           ctx.atk_mult_buff)

\* dmg = atk_eff * coeff * K * (1+global) * (1+inbattle) * (1+final)
HitDamage(ctx, state) ==
    BigMul(BigMul(BigMul(BigMul(BigMul(AtkEff(ctx), ctx.coeff),
                                DamageConstant(ctx.damage_type)),
                         100 + GlobalTotal(ctx, state)),
                  100 + InbattleTotal(ctx, state)),
           100 + FinalTotal(ctx, state))

debug_log_hit_Always(state, ctx, dmg) ==
    [state EXCEPT !.debug_logs = Append(@,
        [ round |-> state.round_index,
          hit_index |-> ctx.hit_index_in_round,
          type |-> ctx.damage_type,
          tags |-> ctx.tags,
          coeff |-> ctx.coeff,
          atk_eff |-> AtkEff(ctx),
          K |-> DamageConstant(ctx.damage_type),
          global_total |-> GlobalTotal(ctx, state),
          inbattle_total |-> InbattleTotal(ctx, state),
          final_total |-> FinalTotal(ctx, state),
          damage |-> dmg,
          lc_stacks |-> state.lightning_charge_stacks,
          lc_bonus |-> state.dynamic_inbattle_lightning_bonus ])]

\* debug_log_hit: one record per resolved hit, only when state.debug
debug_log_hit(state, ctx, dmg) ==
    IF ~state.debug THEN state
    ELSE [state EXCEPT !.debug_logs = Append(@,
            [ round |-> state.round_index,
              hit_index |-> ctx.hit_index_in_round,
              type |-> ctx.damage_type,
              tags |-> ctx.tags,
              coeff |-> ctx.coeff,
              atk_eff |-> AtkEff(ctx),
              K |-> DamageConstant(ctx.damage_type),
              global_total |-> GlobalTotal(ctx, state),
              inbattle_total |-> InbattleTotal(ctx, state),
              final_total |-> FinalTotal(ctx, state),
              damage |-> dmg,
              lc_stacks |-> state.lightning_charge_stacks,
              lc_bonus |-> state.dynamic_inbattle_lightning_bonus ])]

LightningCharge_AnyLightning(ctx, state) ==
    IF "lightning" \in ctx.tags /\ state.lightning_charge_stacks < 99
    THEN [state EXCEPT
            !.lightning_charge_stacks = @ + 1,
            !.dynamic_inbattle_lightning_bonus =
                (state.lightning_charge_stacks + 1) * state.lightning_charge_step]
    ELSE state

LightningCharge_Uncapped(ctx, state) ==
    IF "bolt" \in ctx.tags /\ "lightning" \in ctx.tags
       /\ state.lightning_charge_step > 0
    THEN [state EXCEPT
            !.lightning_charge_stacks = @ + 1,
            !.dynamic_inbattle_lightning_bonus =
                (state.lightning_charge_stacks + 1) * state.lightning_charge_step]
    ELSE state

\* Lightning Charge: after a bolt hit, one more stack (up to 99)
LightningCharge(ctx, state) ==
    IF "bolt" \in ctx.tags /\ "lightning" \in ctx.tags
       /\ state.lightning_charge_step > 0
       /\ state.lightning_charge_stacks < 99
    THEN [state EXCEPT
            !.lightning_charge_stacks = @ + 1,
            !.dynamic_inbattle_lightning_bonus =
                (state.lightning_charge_stacks + 1) * state.lightning_charge_step]
    ELSE state

\* What compute_hit_damage does once dmg is computed
AfterDamage(ctx, state, dmg) ==
    [ dmg |-> dmg,
      state |-> LightningCharge(ctx, debug_log_hit(state, ctx, dmg)),
      ctx |-> ctx ]

\* compute_hit_damage(ctx, state): the returned damage, and the state and the
\* context as the call leaves them (nothing is assigned to ctx)
compute_hit_damage(ctx, state) ==
    AfterDamage(ctx, state, HitDamage(ctx, state))

\* ------------------------------------------------------------------------
\* Configuration (core.py, SimulationConfig) and the effect objects
\* ------------------------------------------------------------------------

None == "None"

\* SimulationConfig() with the dataclass defaults.  seed is {} for None and
\* {n} for the integer n.
SimulationConfig ==
    [ debug |-> FALSE, adventurer |-> "DG", star |-> 0, weapon |-> None,
      combo_mastery |-> FALSE,
      use_extra_end_bolts |-> TRUE, extra_end_bolts_count |-> 3,
      basic_atk_bolt_level |-> 0, five_bolts_from_round6 |-> FALSE,
      rounds |-> 15, basic_hits_per_round |-> 5, seed |-> {},
      base_global_bonus |-> 0, base_inbattle_bonus |-> 0,
      base_final_bonus |-> 0,
      base_global_skill_bonus |-> 0, base_global_lightning_bonus |-> 0,
      base_global_ninjutsu_bonus |-> 0,
      base_final_skill_bonus |-> 0, base_final_lightning_bonus |-> 0,
      base_inbattle_basic_bonus |-> 0, base_inbattle_skill_bonus |-> 0,
      base_inbattle_lightning_bonus |-> 0,
      lightning_charge_step |-> 0, multiple_lightning_factor |-> 1,
      use_ezra_ring |-> FALSE, ezra_final_light_bonus |-> 20,
      artifact |-> None, artifact_level |-> 0 ]

\* The constructors: the fields each __init__ sets.  A reference to the
\* Nashir object is its position in the effect list (0 for None).
ComboMasteryEffect ==
    [ kind |-> "ComboMasteryEffect", atk_step |-> 10, max_stacks |-> 99 ]

NashirScepterEffect(adv_atk_mult) ==
    [ kind |-> "NashirScepterEffect", adv_atk_mult |-> adv_atk_mult,
      base_lightning_coeff |-> 30 + 6, base_thunder_coeff |-> 90 + 6,
      charge_level |-> 1, bolt_stacks |-> 0, max_bolt_stacks |-> 9 ]

EzraRingEffect(adv_atk_mult, final_light_bonus) ==
    [ kind |-> "EzraRingEffect", adv_atk_mult |-> adv_atk_mult,
      final_light_bonus |-> final_light_bonus ]

ExtraEndOfRoundBoltsEffect(adv_atk_mult, n_bolts, nashir, multi_factor) ==
    [ kind |-> "ExtraEndOfRoundBoltsEffect", adv_atk_mult |-> adv_atk_mult,
      n_bolts |-> n_bolts, nashir |-> nashir, multi_factor |-> multi_factor ]

BasicAttackBoltEffect(adv_atk_mult, chance, nashir, multi_factor) ==
    [ kind |-> "BasicAttackBoltEffect", adv_atk_mult |-> adv_atk_mult,
      chance |-> chance, nashir |-> nashir, multi_factor |-> multi_factor ]

FiveBoltsAfterRound6Effect(adv_atk_mult, nashir, multi_factor) ==
    [ kind |-> "FiveBoltsAfterRound6Effect", adv_atk_mult |-> adv_atk_mult,
      nashir |-> nashir, n_bolts |-> 5, multi_factor |-> multi_factor ]

ArcaneTomeEffect(adv_atk_mult, bolts_per_proc, coeff) ==
    [ kind |-> "ArcaneTomeEffect", adv_atk_mult |-> adv_atk_mult,
      bolts_per_proc |-> bolts_per_proc, coeff |-> coeff,
      max_procs_per_round |-> 3, bolt_counter |-> 0, procs_this_round |-> 0 ]

DGDragonStacksEffect(enabled) ==
    [ kind |-> "DGDragonStacksEffect", enabled |-> enabled,
      stack_step |-> 5, max_stacks |-> 20 ]

DGDragonFlameOnHitEffect(coeff) ==
    [ kind |-> "DGDragonFlameOnHitEffect", coeff |-> coeff ]

DGDragonBreathEffect(enabled, coeff, dragon_bonus_next, global_bonus_next) ==
    [ kind |-> "DGDragonBreathEffect", enabled |-> enabled, coeff |-> coeff,
      dragon_bonus_next |-> dragon_bonus_next,
      global_bonus_next |-> global_bonus_next ]

LeoMultiHitNinjutsuEffect(adv_atk_mult, has_2star) ==
    [ kind |-> "LeoMultiHitNinjutsuEffect", adv_atk_mult |-> adv_atk_mult,
      has_2star |-> has_2star ]

LeoHurricaneEffect(adv_atk_mult, start_round, interval, coeff) ==
    [ kind |-> "LeoHurricaneEffect", adv_atk_mult |-> adv_atk_mult,
      start_round |-> start_round, interval |-> interval, coeff |-> coeff ]

LeoLightningNinjutsuFlagEffect(enabled) ==
    [ kind |-> "LeoLightningNinjutsuFlagEffect", enabled |-> enabled ]

LeoChargeReleaseNinjutsuEffect(adv_atk_mult, coeff, grant_global_ninjutsu) ==
    [ kind |-> "LeoChargeReleaseNinjutsuEffect",
      adv_atk_mult |-> adv_atk_mult, coeff |-> coeff,
      grant_global_ninjutsu |-> grant_global_ninjutsu,
      global_buff_applied |-> FALSE ]

DajiFormEffect(adv_atk_mult, star) ==
    [ kind |-> "DajiFormEffect", adv_atk_mult |-> adv_atk_mult,
      star |-> star, initial_fox_applied |-> FALSE,
      global_demonic_applied |-> FALSE ]

DajiChargeReleaseUltimateEffect(adv_atk_mult) ==
    [ kind |-> "DajiChargeReleaseUltimateEffect",
      adv_atk_mult |-> adv_atk_mult ]

\* The methods each class defines or inherits from BaseEffect: what
\* hasattr(e, name) answers.
BaseMethods ==
    { "on_round_start", "on_before_hit", "on_after_hit", "on_round_end" }

Methods(kind) ==
    BaseMethods \cup
    CASE kind = "NashirScepterEffect" ->
            { "process_lightning_bolt", "on_end_round_skills",
              "on_end_round_charge_release" }
      [] kind = "EzraRingEffect" -> { "on_end_round_buffs_expire" }
      [] kind = "ExtraEndOfRoundBoltsEffect" -> { "on_end_round_skills" }
      [] kind = "FiveBoltsAfterRound6Effect" -> { "on_end_round_skills" }
      [] kind = "DGDragonBreathEffect" -> { "on_end_round_adventurer" }
      [] kind = "LeoHurricaneEffect" -> { "on_end_round_adventurer" }
      [] kind = "LeoChargeReleaseNinjutsuEffect" ->
            { "on_before_charge_release" }
      [] kind = "DajiFormEffect" -> { "on_end_round_buffs_expire" }
      [] kind = "DajiChargeReleaseUltimateEffect" ->
            { "on_before_charge_release" }
      [] OTHER -> {}

hasattr(e, name) == name \in Methods(e.kind)

\* ------------------------------------------------------------------------
\* The running battle.  A machine value m holds what a hook can change:
\*   m.state    the BattleState
\*   m.effects  the effect objects, in registration order (state.effects)
\*   m.ctx      the HitContext of the basic hit in progress
\*   m.trace    what has happened in the current round, in order
\*   m.counts   how many hits the run has resolved, by class
\*   m.dmg      what the last compute_hit_damage call returned (the local
\*              variable the caller keeps it in)
\*   m.raised   an exception is propagating
\* ------------------------------------------------------------------------

\* One entry of the trace.  ev is "call" (hook `what` of effect `by` is
\* invoked), "hit" (compute_hit_damage resolves a hit of type `what` for
\* `by`; 0 is the battle loop), "add" (the damage is added to bucket `what`),
\* "broadcast" (the on_after_bolt scan over state.effects), "reset" (the
\* engine's lightning-charge reset) or "raise".
Ev(ev, by, what, h, tags) ==
    [ ev |-> ev, by |-> by, what |-> what, h |-> h, tags |-> tags ]

Logged(m, e) == [m EXCEPT !.trace = Append(@, e)]

IsBolt(tags) == "bolt" \in tags /\ "lightning" \in tags

CountHit(counts, ctx) ==
    [ hits |-> counts.hits + 1,
      bolts |-> counts.bolts + (IF IsBolt(ctx.tags) THEN 1 ELSE 0),
      artifact |-> counts.artifact
                   + (IF "artifact" \in ctx.tags THEN 1 ELSE 0) ]

\* The machine once compute_hit_damage has returned res to effect `by`
Resolved(m, hctx, by, res) ==
    [m EXCEPT !.state = res.state,
              !.dmg = res.dmg,
              !.counts = CountHit(@, hctx),
              !.trace = Append(@, Ev("hit", by, hctx.damage_type,
                                     hctx.hit_index_in_round, hctx.tags))]

\* dmg = compute_hit_damage(hctx, state), called by effect `by`
Resolve(m, hctx, by) ==
    Resolved(m, hctx, by, compute_hit_damage(hctx, m.state))

AddDamage_Assigns(m, bucket, dmg, by) ==
    [m EXCEPT !.state[bucket] = dmg,
              !.trace = Append(@, Ev("add", by, bucket, 0, {}))]

\* state.<bucket> += dmg
AddDamage(m, bucket, dmg, by) ==
    [m EXCEPT !.state[bucket] = BigAdd(@, dmg),
              !.trace = Append(@, Ev("add", by, bucket, 0, {}))]

\* state.<bucket> += dmg, for the dmg the last resolution returned
AddLast(m, bucket, by) == AddDamage(m, bucket, m.dmg, by)

\* dmg = compute_hit_damage(hctx, state); state.<bucket> += dmg
Hit_AddsTwice(m, hctx, bucket, by) ==
    AddLast(AddLast(Resolve(m, hctx, by), bucket, by), bucket, by)

Hit(m, hctx, bucket, by) == AddLast(Resolve(m, hctx, by), bucket, by)

\* An attribute read that fails
RaiseAttributeError(m, by) ==
    [Logged(m, Ev("raise", by, "AttributeError", 0, {})) EXCEPT
        !.raised = TRUE]

\* random.Random: a deterministic stream fixed by its seed.  The stream is
\* a full-period congruential generator over 16 values; random() advances
\* it and returns the new value as a number of ten-thousandths.
RngSeed(seed) == seed % 16

RngNext(rng) == (5 * rng + 3) % 16

RngValue(rng) == rng * 625

\* 1.0 + 0.10 * state.combo_stacks
ComboAtkBuff(state) == 100 + 10 * state.combo_stacks

\* for e in state.effects: if hasattr(e, "on_after_bolt"): e.on_after_bolt(..)
\* No class of the repository defines on_after_bolt, so no call is made.
RECURSIVE BroadcastFrom(_, _, _, _)
BroadcastFrom(m, bolt_ctx, by, i) ==
    IF i > Len(m.effects) THEN m
    ELSE IF hasattr(m.effects[i], "on_after_bolt")
         THEN BroadcastFrom(Logged(m, Ev("call", i, "on_after_bolt", 0,
                                         bolt_ctx.tags)),
                            bolt_ctx, by, i + 1)
         ELSE BroadcastFrom(m, bolt_ctx, by, i + 1)

BroadcastAfterBolt(m, bolt_ctx, by) ==
    BroadcastFrom(Logged(m, Ev("broadcast", by, "on_after_bolt", 0,
                               bolt_ctx.tags)),
                  bolt_ctx, by, 1)

\* ---------------- weapons/nashir.py ----------------

thunder_bonus_by_level(level) ==
    CASE level = 1 -> 15
      [] level = 2 -> 15 + 30
      [] level = 3 -> 15 + 30 + 45

Nashir_thunder_coeff(self) ==
    self.base_thunder_coeff + thunder_bonus_by_level(self.charge_level)

Min(a, b) == IF a <= b THEN a ELSE b

\* _bolt_mult, in tenths: 1.0 + 0.2 * min(bolt_stacks, max_bolt_stacks)
Nashir_bolt_mult(self) ==
    10 + 2 * Min(self.bolt_stacks, self.max_bolt_stacks)

\* dmg * M_bolt
TimesBoltMult(dmg, self) == BigDiv(BigMul(dmg, Nashir_bolt_mult(self)), 10)

\* rng.random() < 0.5
Nashir_IsThunder(rng) == RngValue(rng) < 5000

\* state.dmg_bolt += dmg * M_bolt
Nashir_add_bolt(m, n) ==
    AddDamage(m, "dmg_bolt", TimesBoltMult(m.dmg, m.effects[n]), n)

\* if is_thunder: self.bolt_stacks = min(self.bolt_stacks + 1.0, max)
Nashir_gain_stack(m, n, is_thunder) ==
    IF is_thunder
    THEN [m EXCEPT !.effects[n].bolt_stacks =
                       Min(@ + 1, m.effects[n].max_bolt_stacks)]
    ELSE m

Nashir_bolt_StackFirst(m, n, atk_mult_buff, global_bonus, is_thunder) ==
    LET self == m.effects[n]
        coeff == IF is_thunder THEN Nashir_thunder_coeff(self)
                               ELSE self.base_lightning_coeff
        bolt_ctx == [HitContext(DamageType.OTHER_SKILL, coeff) EXCEPT
                       !.atk_mult_adventurer = self.adv_atk_mult,
                       !.atk_mult_buff = atk_mult_buff,
                       !.global_bonus = global_bonus,
                       !.tags = {"skill", "lightning", "bolt"}]
    IN  BroadcastAfterBolt(
            Nashir_add_bolt(
                Nashir_gain_stack(Resolve(m, bolt_ctx, n), n, is_thunder), n),
            bolt_ctx, n)

\* One pass of the loop of process_lightning_bolt once the conversion is
\* drawn; n is Nashir's position
Nashir_bolt(m, n, atk_mult_buff, global_bonus, is_thunder) ==
    LET self == m.effects[n]
        coeff == IF is_thunder THEN Nashir_thunder_coeff(self)
                               ELSE self.base_lightning_coeff
        bolt_ctx == [HitContext(DamageType.OTHER_SKILL, coeff) EXCEPT
                       !.atk_mult_adventurer = self.adv_atk_mult,
                       !.atk_mult_buff = atk_mult_buff,
                       !.global_bonus = global_bonus,
                       !.tags = {"skill", "lightning", "bolt"}]
    IN  Nashir_gain_stack(
            BroadcastAfterBolt(Nashir_add_bolt(Resolve(m, bolt_ctx, n), n),
                               bolt_ctx, n),
            n, is_thunder)

Nashir_one_bolt(m, n, atk_mult_buff, global_bonus) ==
    Nashir_bolt([m EXCEPT !.state.rng = RngNext(@)], n, atk_mult_buff,
                global_bonus, Nashir_IsThunder(RngNext(m.state.rng)))

RECURSIVE Nashir_bolt_loop(_, _, _, _, _)
Nashir_bolt_loop(m, n, atk_mult_buff, global_bonus, count) ==
    IF count <= 0 \/ m.raised THEN m
    ELSE Nashir_bolt_loop(Nashir_one_bolt(m, n, atk_mult_buff, global_bonus),
                          n, atk_mult_buff, global_bonus, count - 1)

\* NashirScepterEffect.process_lightning_bolt(state, atk_mult_buff, count)
Nashir_process_lightning_bolt(m, n, atk_mult_buff, count) ==
    IF count <= 0 THEN m
    ELSE Nashir_bolt_loop(m, n, atk_mult_buff, m.state.breath_global_this,
                          count)

Nashir_on_end_round_skills(m, i) ==
    Nashir_process_lightning_bolt(m, i, ComboAtkBuff(m.state), 1)

\* One of the thunder bolts of the charge release
Nashir_release_bolt(m, i, atk_mult_buff, global_bonus) ==
    LET self == m.effects[i]
        thunder_ctx == [HitContext(DamageType.OTHER_SKILL,
                                   Nashir_thunder_coeff(self)) EXCEPT
                          !.atk_mult_adventurer = self.adv_atk_mult,
                          !.atk_mult_buff = atk_mult_buff,
                          !.global_bonus = global_bonus,
                          !.tags = {"skill", "lightning", "bolt"}]
    IN  Nashir_gain_stack(Nashir_add_bolt(Resolve(m, thunder_ctx, i), i),
                          i, TRUE)

RECURSIVE Nashir_release_loop(_, _, _, _, _)
Nashir_release_loop(m, i, atk_mult_buff, global_bonus, count) ==
    IF count <= 0 \/ m.raised THEN m
    ELSE Nashir_release_loop(
             Nashir_release_bolt(m, i, atk_mult_buff, global_bonus),
             i, atk_mult_buff, global_bonus, count - 1)

Nashir_next_charge_level_StaysCharged(level) ==
    IF level < 3 THEN level + 1 ELSE 3

\* if self.charge_level < 3: self.charge_level += 1; else: ... = 1
Nashir_next_charge_level(level) == IF level < 3 THEN level + 1 ELSE 1

Nashir_on_end_round_charge_release(m, i) ==
    LET self == m.effects[i]
        m1 == IF self.charge_level = 3
              THEN Nashir_release_loop(m, i, ComboAtkBuff(m.state),
                                       m.state.breath_global_this, 6)
              ELSE m
    IN  [m1 EXCEPT !.effects[i].charge_level = Nashir_next_charge_level(@)]

\* ---------------- skills/lightning.py ----------------

\* One pass of the plain-lightning loop (no Nashir): the tags read
\* state.lightning_as_demonic and the coefficient state.daji_bolt_coeff_bonus
Plain_one_bolt(m, i, atk_mult_buff) ==
    LET self == m.effects[i]
        st == m.state
    IN  IF st.lightning_as_demonic = Absent THEN RaiseAttributeError(m, i)
        ELSE IF st.daji_bolt_coeff_bonus = Absent
             THEN RaiseAttributeError(m, i)
        ELSE
        LET tags == {"skill", "lightning", "bolt"}
                    \cup (IF st.lightning_as_ninjutsu THEN {"ninjutsu"}
                                                      ELSE {})
                    \cup (IF TRUE \in st.lightning_as_demonic
                          THEN {"demonic"} ELSE {})
            bonus == CHOOSE b \in st.daji_bolt_coeff_bonus : TRUE
            bolt_ctx == [HitContext(DamageType.OTHER_SKILL, 30 + bonus) EXCEPT
                           !.atk_mult_adventurer = self.adv_atk_mult,
                           !.atk_mult_buff = atk_mult_buff,
                           !.global_bonus = st.breath_global_this,
                           !.tags = tags]
        IN  BroadcastAfterBolt(Hit(m, bolt_ctx, "dmg_other", i), bolt_ctx, i)

RECURSIVE Plain_bolt_loop(_, _, _, _)
Plain_bolt_loop(m, i, atk_mult_buff, count) ==
    IF count <= 0 \/ m.raised THEN m
    ELSE Plain_bolt_loop(Plain_one_bolt(m, i, atk_mult_buff), i,
                         atk_mult_buff, count - 1)

\* The bolts of a lightning skill: through Nashir when equipped, else plain
FireBolts(m, i, atk_mult_buff, total_bolts) ==
    IF m.effects[i].nashir # 0
    THEN Nashir_process_lightning_bolt(m, m.effects[i].nashir,
                                       atk_mult_buff, total_bolts)
    ELSE Plain_bolt_loop(m, i, atk_mult_buff, total_bolts)

ExtraBolts_on_end_round_skills_Unmultiplied(m, i) ==
    LET self == m.effects[i]
    IN  IF self.n_bolts <= 0 THEN m
        ELSE FireBolts(m, i, ComboAtkBuff(m.state), self.n_bolts)

\* total_bolts = self.n_bolts * self.multi_factor, through Nashir or plain
ExtraBolts_on_end_round_skills(m, i) ==
    LET self == m.effects[i]
    IN  IF self.n_bolts <= 0 THEN m
        ELSE FireBolts(m, i, ComboAtkBuff(m.state),
                       self.n_bolts * self.multi_factor)

BasicBolt_on_after_hit(m, i) ==
    LET self == m.effects[i]
        rng == RngNext(m.state.rng)
        m1 == [m EXCEPT !.state.rng = rng]
    IN  IF RngValue(rng) >= self.chance THEN m1
        ELSE FireBolts(m1, i, ComboAtkBuff(m1.state), 2 * self.multi_factor)

FiveBolts_on_end_round_skills(m, i) ==
    LET self == m.effects[i]
    IN  IF m.state.round_index < 6 THEN m
        ELSE FireBolts(m, i, ComboAtkBuff(m.state),
                       self.n_bolts * self.multi_factor)

\* ---------------- skills/ezra_ring.py ----------------

Ezra_on_round_start(m, i) ==
    LET self == m.effects[i]
        m1 == [m EXCEPT !.state.temp_final_lightning_bonus =
                            @ + self.final_light_bonus]
        bolt_ctx == [HitContext(DamageType.OTHER_SKILL, 100) EXCEPT
                       !.atk_mult_adventurer = self.adv_atk_mult,
                       !.atk_mult_buff = ComboAtkBuff(m1.state),
                       !.global_bonus = m1.state.breath_global_this,
                       !.tags = {"skill", "lightning", "bolt", "ezra"}
                                \cup (IF m1.state.lightning_as_ninjutsu
                                      THEN {"ninjutsu"} ELSE {})]
    IN  Hit(m1, bolt_ctx, "dmg_bolt", i)

Ezra_on_end_round_buffs_expire_Keeps(m, i) == m

\* state.temp_final_lightning_bonus = 0.0
Ezra_on_end_round_buffs_expire(m, i) ==
    [m EXCEPT !.state.temp_final_lightning_bonus = 0]

\* ---------------- artifacts/arcane_tome.py ----------------

Tome_on_round_start_ResetsCounter(m, i) ==
    [m EXCEPT !.effects[i].procs_this_round = 0,
              !.effects[i].bolt_counter = 0]

Tome_on_round_start(m, i) == [m EXCEPT !.effects[i].procs_this_round = 0]

\* The while loop of on_after_hit: consume bolts into procs
RECURSIVE Tome_proc_loop(_, _)
Tome_proc_loop(m, i) ==
    LET self == m.effects[i]
    IN  IF ~(self.bolt_counter >= self.bolts_per_proc
             /\ self.procs_this_round < self.max_procs_per_round)
        THEN m
        ELSE
        LET m1 == [m EXCEPT
                     !.effects[i].bolt_counter = @ - self.bolts_per_proc,
                     !.effects[i].procs_this_round = @ + 1]
            tome_ctx == [HitContext(DamageType.OTHER_SKILL, self.coeff) EXCEPT
                           !.atk_mult_adventurer = self.adv_atk_mult,
                           !.atk_mult_buff = ComboAtkBuff(m1.state),
                           !.global_bonus = m1.state.breath_global_this,
                           !.tags = {"skill", "lightning", "artifact"}]
        IN  Tome_proc_loop(Hit(m1, tome_ctx, "dmg_other", i), i)

Tome_on_after_hit(m, i, ctx) ==
    IF "bolt" \notin ctx.tags \/ "lightning" \notin ctx.tags THEN m
    ELSE Tome_proc_loop([m EXCEPT !.effects[i].bolt_counter = @ + 1], i)

\* ---------------- skills/combo_mastery.py ----------------

\* ctx.atk_mult_buff *= (1.0 + atk_step * combo_stacks)
Combo_on_before_hit(m, i) ==
    LET self == m.effects[i]
    IN  [m EXCEPT !.ctx.atk_mult_buff =
            (@ * (100 + self.atk_step * m.state.combo_stacks)) \div 100]

Combo_on_after_hit_EveryHit(m, i) ==
    [m EXCEPT !.state.combo_stacks = Min(@ + 1, m.effects[i].max_stacks)]

\* if ctx.is_combo: state.combo_stacks = min(state.combo_stacks + 1, max)
Combo_on_after_hit(m, i) ==
    LET self == m.effects[i]
    IN  IF m.ctx.is_combo
        THEN [m EXCEPT !.state.combo_stacks = Min(@ + 1, self.max_stacks)]
        ELSE m

\* ---------------- adventurers/dragon_girl.py ----------------

DGStacks_gain_Uncapped(m, i) ==
    LET self == m.effects[i]
    IN  IF ~self.enabled THEN m
        ELSE [m EXCEPT !.state.dragon_stacks = @ + 1]

\* state.dragon_stacks = min(state.dragon_stacks + 1, self.max_stacks)
DGStacks_gain(m, i) ==
    LET self == m.effects[i]
    IN  IF ~self.enabled THEN m
        ELSE [m EXCEPT !.state.dragon_stacks = Min(@ + 1, self.max_stacks)]

DGStacks_on_round_start(m, i) == DGStacks_gain(m, i)

DGStacks_on_before_hit(m, i) ==
    LET self == m.effects[i]
    IN  IF ~self.enabled THEN m
        ELSE IF m.ctx.damage_type \in { DamageType.BASIC,
                                        DamageType.DRAGON_FLAME,
                                        DamageType.DRAGON_BREATH }
        THEN [m EXCEPT !.ctx.global_bonus =
                           @ + self.stack_step * m.state.dragon_stacks]
        ELSE m

DGStacks_on_after_hit(m, i) == DGStacks_gain(m, i)

DGFlame_on_after_hit(m, i) ==
    LET self == m.effects[i]
        flame_ctx == [HitContext(DamageType.DRAGON_FLAME, self.coeff) EXCEPT
                        !.hit_index_in_round = m.ctx.hit_index_in_round,
                        !.atk_base = m.ctx.atk_base,
                        !.atk_mult_adventurer = m.ctx.atk_mult_adventurer,
                        !.atk_mult_buff = ComboAtkBuff(m.state),
                        !.global_bonus = m.ctx.global_bonus
                                         + m.state.breath_dragon_this,
                        !.tags = {"skill", "dragon_flame"}]
    IN  Hit(m, flame_ctx, "dmg_flame", i)

DGBreath_on_round_start_KeepsNext(m, i) ==
    [m EXCEPT !.state.breath_global_this = m.state.breath_global_next,
              !.state.breath_dragon_this = m.state.breath_dragon_next]

\* this = next; next = 0.0, for both buffs
DGBreath_on_round_start(m, i) ==
    [m EXCEPT !.state.breath_global_this = m.state.breath_global_next,
              !.state.breath_dragon_this = m.state.breath_dragon_next,
              !.state.breath_global_next = 0,
              !.state.breath_dragon_next = 0]

DGBreath_on_before_hit(m, i) ==
    [m EXCEPT !.ctx.global_bonus = @ + m.state.breath_global_this]

DGBreath_on_end_round_adventurer_EveryRound(m, i) ==
    LET self == m.effects[i]
        st == m.state
    IN  IF ~self.enabled THEN m
        ELSE
        LET breath_ctx == [HitContext(DamageType.DRAGON_BREATH, self.coeff)
                             EXCEPT
                             !.atk_mult_adventurer = 115,
                             !.global_bonus = st.breath_global_this
                                              + st.breath_dragon_this
                                              + 5 * st.dragon_stacks,
                             !.tags = {"skill", "dragon_flame"}]
        IN  [Hit(m, breath_ctx, "dmg_breath", i) EXCEPT
               !.state.breath_dragon_next = @ + self.dragon_bonus_next,
               !.state.breath_global_next = @ + self.global_bonus_next,
               !.state.breath_dragon_this = @ + self.dragon_bonus_next,
               !.state.breath_global_this = @ + self.global_bonus_next]

\* Dragon Breath: on odd rounds one dragon_breath hit, then the grants to
\* the "next" and to the "this" slots
DGBreath_on_end_round_adventurer(m, i) ==
    LET self == m.effects[i]
        st == m.state
    IN  IF ~self.enabled THEN m
        ELSE IF st.round_index % 2 = 0 THEN m
        ELSE
        LET breath_ctx == [HitContext(DamageType.DRAGON_BREATH, self.coeff)
                             EXCEPT
                             !.atk_mult_adventurer = 115,
                             !.global_bonus = st.breath_global_this
                                              + st.breath_dragon_this
                                              + 5 * st.dragon_stacks,
                             !.tags = {"skill", "dragon_flame"}]
        IN  [Hit(m, breath_ctx, "dmg_breath", i) EXCEPT
               !.state.breath_dragon_next = @ + self.dragon_bonus_next,
               !.state.breath_global_next = @ + self.global_bonus_next,
               !.state.breath_dragon_this = @ + self.dragon_bonus_next,
               !.state.breath_global_this = @ + self.global_bonus_next]

dg_effects_for_star_ComboLast(star, with_combo_mastery) ==
    << DGDragonStacksEffect(star >= 5),
       DGDragonFlameOnHitEffect(IF star < 2 THEN 90 ELSE 180),
       IF star < 4 THEN DGDragonBreathEffect(FALSE, 0, 0, 0)
       ELSE IF star <= 6 THEN DGDragonBreathEffect(TRUE, 600, 30, 0)
       ELSE IF star = 7 THEN DGDragonBreathEffect(TRUE, 1200, 60, 0)
       ELSE DGDragonBreathEffect(TRUE, 1200, 60, 30) >>
    \o (IF with_combo_mastery THEN <<ComboMasteryEffect>> ELSE <<>>)

\* The effect list of Dragon Girl: Combo Mastery first, then stacks, flame
\* and breath
dg_effects_for_star(star, with_combo_mastery) ==
    (IF with_combo_mastery THEN <<ComboMasteryEffect>> ELSE <<>>)
    \o << DGDragonStacksEffect(star >= 5),
          DGDragonFlameOnHitEffect(IF star < 2 THEN 90 ELSE 180),
          IF star < 4 THEN DGDragonBreathEffect(FALSE, 0, 0, 0)
          ELSE IF star <= 6 THEN DGDragonBreathEffect(TRUE, 600, 30, 0)
          ELSE IF star = 7 THEN DGDragonBreathEffect(TRUE, 1200, 60, 0)
          ELSE DGDragonBreathEffect(TRUE, 1200, 60, 30) >>

\* ---------------- adventurers/leo.py ----------------

Leo_on_before_hit_KeepsCoeff(m, i) == m

\* if ctx.damage_type == DamageType.BASIC: ctx.coeff = 0.0
Leo_on_before_hit(m, i) ==
    IF m.ctx.damage_type = DamageType.BASIC
    THEN [m EXCEPT !.ctx.coeff = 0] ELSE m

\* One of the three parts of a basic hit: the BASIC sub-hit and, at 2 stars,
\* the 70% ninjutsu proc of the same coefficient
\* if self.has_2star and rng.random() < 0.7: the ninjutsu proc of a part
Leo_ninjutsu_proc(m, i, ninj_ctx) ==
    IF RngValue(m.state.rng) < 7000 THEN Hit(m, ninj_ctx, "dmg_other", i)
    ELSE m

Leo_after_basic(m, i, ninj_ctx) ==
    IF ~m.effects[i].has_2star THEN m
    ELSE Leo_ninjutsu_proc([m EXCEPT !.state.rng = RngNext(@)], i, ninj_ctx)

Leo_part(m, i, part_coeff) ==
    LET self == m.effects[i]
        c == m.ctx
        basic_ctx == [HitContext(DamageType.BASIC, part_coeff) EXCEPT
                        !.is_basic = c.is_basic, !.is_combo = c.is_combo,
                        !.hit_index_in_round = c.hit_index_in_round,
                        !.atk_base = c.atk_base,
                        !.atk_mult_adventurer = self.adv_atk_mult,
                        !.atk_mult_buff = c.atk_mult_buff,
                        !.global_bonus = c.global_bonus,
                        !.tags = {"basic"}]
        ninj_ctx == [HitContext(DamageType.OTHER_SKILL, part_coeff) EXCEPT
                       !.atk_base = c.atk_base,
                       !.atk_mult_adventurer = self.adv_atk_mult,
                       !.atk_mult_buff = c.atk_mult_buff,
                       !.global_bonus = c.global_bonus,
                       !.tags = {"skill", "ninjutsu", "basic"}]
    IN  Leo_after_basic(Hit(m, basic_ctx, "dmg_basic", i), i, ninj_ctx)

Leo_on_after_hit(m, i) ==
    IF m.ctx.damage_type # DamageType.BASIC THEN m
    ELSE
    LET self == m.effects[i]
        c == m.ctx
        ninj_final_ctx == [HitContext(DamageType.OTHER_SKILL, 100) EXCEPT
                             !.atk_base = c.atk_base,
                             !.atk_mult_adventurer = self.adv_atk_mult,
                             !.atk_mult_buff = c.atk_mult_buff,
                             !.global_bonus = c.global_bonus,
                             !.tags = {"skill", "ninjutsu"}]
    IN  Hit(Leo_part(Leo_part(Leo_part(m, i, 30), i, 70), i, 100),
            ninj_final_ctx, "dmg_other", i)

Hurricane_hit(m, i) ==
    LET self == m.effects[i]
        hctx == [HitContext(DamageType.OTHER_SKILL, self.coeff) EXCEPT
                   !.atk_mult_adventurer = self.adv_atk_mult,
                   !.global_bonus = m.state.breath_global_this,
                   !.tags = {"skill", "ninjutsu"}]
    IN  Hit(m, hctx, "dmg_other", i)

RECURSIVE Hurricane_loop(_, _, _)
Hurricane_loop(m, i, count) ==
    IF count <= 0 \/ m.raised THEN m
    ELSE Hurricane_loop(Hurricane_hit(m, i), i, count - 1)

Hurricane_on_end_round_adventurer_NoInterval(m, i) ==
    LET self == m.effects[i]
        rr == m.state.round_index
    IN  IF rr < self.start_round THEN m
        ELSE Hurricane_loop(m, i, 5)

\* Hurricane: 5 ninjutsu hits in the rounds start_round, start_round +
\* interval, ...
Hurricane_on_end_round_adventurer(m, i) ==
    LET self == m.effects[i]
        rr == m.state.round_index
    IN  IF rr < self.start_round THEN m
        ELSE IF (rr - self.start_round) % self.interval # 0 THEN m
        ELSE Hurricane_loop(m, i, 5)

LeoFlag_on_round_start(m, i) ==
    [m EXCEPT !.state.lightning_as_ninjutsu = m.effects[i].enabled]

LeoRelease_hit(m, i) ==
    LET self == m.effects[i]
        hctx == [HitContext(DamageType.OTHER_SKILL, self.coeff) EXCEPT
                   !.atk_mult_adventurer = self.adv_atk_mult,
                   !.global_bonus = m.state.breath_global_this,
                   !.tags = {"skill", "ninjutsu"}]
    IN  Hit(m, hctx, "dmg_other", i)

\* LeoChargeReleaseNinjutsuEffect.on_before_charge_release: a method no
\* code of the repository calls
LeoRelease_grant(m, i) ==
    IF m.effects[i].grant_global_ninjutsu /\ ~m.effects[i].global_buff_applied
    THEN [m EXCEPT !.state.dynamic_global_ninjutsu_bonus = @ + 60,
                   !.effects[i].global_buff_applied = TRUE]
    ELSE m

LeoRelease_on_before_charge_release(m, i) ==
    LeoRelease_grant(LeoRelease_hit(LeoRelease_hit(LeoRelease_hit(m, i), i), i),
                     i)

leo_effects_for_star(star, with_combo_mastery) ==
    << LeoMultiHitNinjutsuEffect(110, star >= 2) >>
    \o (IF 4 <= star /\ star <= 6 THEN << LeoHurricaneEffect(110, 2, 3, 200) >>
        ELSE IF star >= 7 THEN << LeoHurricaneEffect(110, 1, 2, 400) >>
        ELSE <<>>)
    \o << LeoLightningNinjutsuFlagEffect(star >= 5) >>
    \o (IF 8 <= star /\ star <= 9
        THEN << LeoChargeReleaseNinjutsuEffect(110, 300, FALSE) >>
        ELSE IF star >= 10
        THEN << LeoChargeReleaseNinjutsuEffect(110, 500, TRUE) >>
        ELSE <<>>)

\* ---------------- adventurers/daji.py ----------------

\* The value of an attribute that has been assigned
ValueOf(attr) == CHOOSE v \in attr : TRUE

\* The first hit of _enter_fox_form.  The argument DamageType.DEMONIC_AURA
\* of its HitContext names no member of DamageType: evaluating it raises
\* AttributeError before any hit is resolved, and the Fox Flame hit after it
\* (which names DamageType.FLAME_FOX, no member either) is never reached.
Daji_fox_hits(m, i) ==
    IF "DEMONIC_AURA" \notin DOMAIN DamageType THEN RaiseAttributeError(m, i)
    ELSE Hit(m, [HitContext(DamageType.DEMONIC_AURA, 1100) EXCEPT
                    !.atk_mult_adventurer = m.effects[i].adv_atk_mult,
                    !.global_bonus = m.state.breath_global_this,
                    !.tags = {"skill", "demonic"}],
             "dmg_demonic", i)

\* DajiFormEffect._enter_fox_form(state, expire_after_round)
Daji_enter_fox_form(m, i, expire_after_round) ==
    IF m.state.daji_fox_form_active = Absent THEN RaiseAttributeError(m, i)
    ELSE IF ValueOf(m.state.daji_fox_form_active) THEN m
    ELSE Daji_fox_hits(
             [m EXCEPT
                !.state.daji_fox_form_active = {TRUE},
                !.state.daji_fox_form_expires_after_round =
                    {expire_after_round},
                !.state.lightning_as_demonic =
                    IF m.effects[i].star >= 5 THEN {TRUE} ELSE @],
             i)

\* DajiFormEffect._leave_fox_form(state)
Daji_leave_fox_form(m, i) ==
    IF m.state.daji_fox_form_active = Absent THEN RaiseAttributeError(m, i)
    ELSE IF ~ValueOf(m.state.daji_fox_form_active) THEN m
    ELSE [m EXCEPT !.state.daji_fox_form_active = {FALSE},
                   !.state.daji_fox_form_expires_after_round = {0},
                   !.state.daji_fox_first_skill_pending = {FALSE},
                   !.state.daji_aura_stacks = {0},
                   !.state.lightning_as_demonic = {FALSE}]

\* 10 stars: state.dynamic_global_demonic_bonus += 0.60, once
Daji_global_demonic(m, i) ==
    IF ~(m.effects[i].star >= 10 /\ ~m.effects[i].global_demonic_applied)
    THEN m
    ELSE IF m.state.dynamic_global_demonic_bonus = Absent
    THEN RaiseAttributeError(m, i)
    ELSE [m EXCEPT !.state.dynamic_global_demonic_bonus = {ValueOf(@) + 60},
                   !.effects[i].global_demonic_applied = TRUE]

\* self.initial_fox_applied = True, when _enter_fox_form has returned
Daji_initial_applied(m, i) ==
    IF m.raised THEN m ELSE [m EXCEPT !.effects[i].initial_fox_applied = TRUE]

\* 5 stars: at the start of round 1, 9 stacks and Fox Form until its end
Daji_initial_fox(m, i) ==
    IF m.raised THEN m
    ELSE IF m.effects[i].star >= 5 /\ m.state.round_index = 1
            /\ ~m.effects[i].initial_fox_applied
    THEN Daji_initial_applied(
             Daji_enter_fox_form([m EXCEPT !.state.daji_aura_stacks = {9}],
                                 i, 1),
             i)
    ELSE m

Daji_on_round_start(m, i) == Daji_initial_fox(Daji_global_demonic(m, i), i)

Daji_on_before_hit(m, i) ==
    IF m.effects[i].star < 4 THEN m
    ELSE IF m.state.daji_fox_form_active = Absent
    THEN RaiseAttributeError(m, i)
    ELSE IF ValueOf(m.state.daji_fox_form_active) /\ "bolt" \in m.ctx.tags
    THEN [m EXCEPT !.ctx.coeff = @ + 60]
    ELSE m

\* 1) Fox Form expiry
Daji_expiry(m, i) ==
    IF m.state.daji_fox_form_active = Absent THEN RaiseAttributeError(m, i)
    ELSE IF ~ValueOf(m.state.daji_fox_form_active) THEN m
    ELSE IF m.state.daji_fox_form_expires_after_round = Absent
    THEN RaiseAttributeError(m, i)
    ELSE IF m.state.round_index
              >= ValueOf(m.state.daji_fox_form_expires_after_round)
    THEN Daji_leave_fox_form(m, i)
    ELSE m

Daji_gain_Uncapped(stacks) == stacks + 3

\* min(state.daji_aura_stacks + 3, 9)
Daji_gain(stacks) == Min(stacks + 3, 9)

\* On reaching 9 stacks, transform for the next round
Daji_threshold(m, i) ==
    IF ValueOf(m.state.daji_aura_stacks) >= 9
    THEN Daji_enter_fox_form(m, i, m.state.round_index + 1)
    ELSE m

\* 2) Aura stacks and transform
Daji_aura(m, i) ==
    IF m.raised THEN m
    ELSE IF ValueOf(m.state.daji_fox_form_active) THEN m
    ELSE IF m.state.daji_aura_stacks = Absent THEN RaiseAttributeError(m, i)
    ELSE Daji_threshold(
             [m EXCEPT !.state.daji_aura_stacks = {Daji_gain(ValueOf(@))}],
             i)

Daji_on_end_round_buffs_expire(m, i) == Daji_aura(Daji_expiry(m, i), i)

\* DajiChargeReleaseUltimateEffect.on_before_charge_release: a method no
\* code of the repository calls
DajiUltimate_on_before_charge_release(m, i) ==
    Hit(m, [HitContext(DamageType.ULTIMATE, 900) EXCEPT
               !.atk_mult_adventurer = m.effects[i].adv_atk_mult,
               !.global_bonus = m.state.breath_global_this,
               !.tags = {"skill", "demonic"}],
        "dmg_ultimate", i)

daji_effects_for_star(star, with_combo_mastery) ==
    << DajiFormEffect(115, star) >>
    \o (IF star >= 8 THEN << DajiChargeReleaseUltimateEffect(115) >>
        ELSE << >>)

\* ---------------- the hooks of the effect protocol ----------------

\* e.<hook>(state) or e.<hook>(state, ctx) for the effect at position i
CallHook(hook, m, i) ==
    LET kind == m.effects[i].kind
    IN  CASE hook = "on_round_start" /\ kind = "EzraRingEffect" ->
                Ezra_on_round_start(m, i)
          [] hook = "on_round_start" /\ kind = "ArcaneTomeEffect" ->
                Tome_on_round_start(m, i)
          [] hook = "on_before_hit" /\ kind = "ComboMasteryEffect" ->
                Combo_on_before_hit(m, i)
          [] hook = "on_after_hit" /\ kind = "ComboMasteryEffect" ->
                Combo_on_after_hit(m, i)
          [] hook = "on_after_hit" /\ kind = "BasicAttackBoltEffect" ->
                BasicBolt_on_after_hit(m, i)
          [] hook = "on_after_hit" /\ kind = "ArcaneTomeEffect" ->
                Tome_on_after_hit(m, i, m.ctx)
          [] hook = "on_end_round_skills" /\ kind = "NashirScepterEffect" ->
                Nashir_on_end_round_skills(m, i)
          [] hook = "on_end_round_skills"
             /\ kind = "ExtraEndOfRoundBoltsEffect" ->
                ExtraBolts_on_end_round_skills(m, i)
          [] hook = "on_end_round_skills"
             /\ kind = "FiveBoltsAfterRound6Effect" ->
                FiveBolts_on_end_round_skills(m, i)
          [] hook = "on_end_round_buffs_expire" /\ kind = "EzraRingEffect" ->
                Ezra_on_end_round_buffs_expire(m, i)
          [] hook = "on_end_round_charge_release"
             /\ kind = "NashirScepterEffect" ->
                Nashir_on_end_round_charge_release(m, i)
          [] hook = "on_round_start" /\ kind = "DGDragonStacksEffect" ->
                DGStacks_on_round_start(m, i)
          [] hook = "on_before_hit" /\ kind = "DGDragonStacksEffect" ->
                DGStacks_on_before_hit(m, i)
          [] hook = "on_after_hit" /\ kind = "DGDragonStacksEffect" ->
                DGStacks_on_after_hit(m, i)
          [] hook = "on_after_hit" /\ kind = "DGDragonFlameOnHitEffect" ->
                DGFlame_on_after_hit(m, i)
          [] hook = "on_round_start" /\ kind = "DGDragonBreathEffect" ->
                DGBreath_on_round_start(m, i)
          [] hook = "on_before_hit" /\ kind = "DGDragonBreathEffect" ->
                DGBreath_on_before_hit(m, i)
          [] hook = "on_end_round_adventurer"
             /\ kind = "DGDragonBreathEffect" ->
                DGBreath_on_end_round_adventurer(m, i)
          [] hook = "on_before_hit"
             /\ kind = "LeoMultiHitNinjutsuEffect" ->
                Leo_on_before_hit(m, i)
          [] hook = "on_after_hit" /\ kind = "LeoMultiHitNinjutsuEffect" ->
                Leo_on_after_hit(m, i)
          [] hook = "on_end_round_adventurer"
             /\ kind = "LeoHurricaneEffect" ->
                Hurricane_on_end_round_adventurer(m, i)
          [] hook = "on_round_start"
             /\ kind = "LeoLightningNinjutsuFlagEffect" ->
                LeoFlag_on_round_start(m, i)
          [] hook = "on_before_charge_release"
             /\ kind = "LeoChargeReleaseNinjutsuEffect" ->
                LeoRelease_on_before_charge_release(m, i)
          [] hook = "on_round_start" /\ kind = "DajiFormEffect" ->
                Daji_on_round_start(m, i)
          [] hook = "on_before_hit" /\ kind = "DajiFormEffect" ->
                Daji_on_before_hit(m, i)
          [] hook = "on_end_round_buffs_expire" /\ kind = "DajiFormEffect" ->
                Daji_on_end_round_buffs_expire(m, i)
          [] hook = "on_before_charge_release"
             /\ kind = "DajiChargeReleaseUltimateEffect" ->
                DajiUltimate_on_before_charge_release(m, i)
          [] OTHER -> m     \* the no-op of BaseEffect

\* for e in effects: if hasattr(e, hook): e.<hook>(...), from position i on;
\* an exception ends the scan
RECURSIVE ScanFrom(_, _, _)
ScanFrom(hook, m, i) ==
    IF i > Len(m.effects) \/ m.raised THEN m
    ELSE IF hasattr(m.effects[i], hook)
         THEN ScanFrom(hook,
                       CallHook(hook, Logged(m, Ev("call", i, hook,
                                                   m.ctx.hit_index_in_round,
                                                   {})), i),
                       i + 1)
         ELSE ScanFrom(hook, m, i + 1)

Scan_SkipsFirst(hook, m) == ScanFrom(hook, m, 2)

Scan(hook, m) == ScanFrom(hook, m, 1)

\* ------------------------------------------------------------------------
\* Building the effects (core.py, build_effects_from_config)
\* ------------------------------------------------------------------------

AdventurerEffects(config) ==
    CASE config.adventurer = "DG" ->
            dg_effects_for_star(config.star, config.combo_mastery)
      [] config.adventurer = "Leo" ->
            leo_effects_for_star(config.star, config.combo_mastery)
      [] OTHER -> <<>>

AdventurerMult(config) ==
    CASE config.adventurer = "DG" -> 115
      [] config.adventurer = "Leo" -> 110
      [] config.adventurer = "Daji" -> 115
      [] OTHER -> 100

BasicBoltChance(config) ==
    IF config.adventurer = "Leo"
    THEN (IF config.basic_atk_bolt_level = 1 THEN 8336 ELSE 9840)
    ELSE (IF config.basic_atk_bolt_level = 1 THEN 4500 ELSE 7500)

build_effects_from_config(config) ==
    LET adv_atk_mult == AdventurerMult(config)
        nashir == IF config.weapon = "Nashir"
                  THEN Len(AdventurerEffects(config)) + 1 ELSE 0
    IN  [ adv_atk_mult |-> adv_atk_mult,
          effects |->
            AdventurerEffects(config)
            \o (IF config.weapon = "Nashir"
                THEN << NashirScepterEffect(adv_atk_mult) >> ELSE <<>>)
            \o (IF config.use_ezra_ring
                THEN << EzraRingEffect(adv_atk_mult,
                                       config.ezra_final_light_bonus) >>
                ELSE <<>>)
            \o (IF config.use_extra_end_bolts
                   /\ config.extra_end_bolts_count > 0
                THEN << ExtraEndOfRoundBoltsEffect(
                            adv_atk_mult, config.extra_end_bolts_count,
                            nashir, config.multiple_lightning_factor) >>
                ELSE <<>>)
            \o (IF config.basic_atk_bolt_level > 0
                THEN << BasicAttackBoltEffect(
                            adv_atk_mult, BasicBoltChance(config),
                            nashir, config.multiple_lightning_factor) >>
                ELSE <<>>)
            \o (IF config.five_bolts_from_round6
                THEN << FiveBoltsAfterRound6Effect(
                            adv_atk_mult, nashir,
                            config.multiple_lightning_factor) >>
                ELSE <<>>)
            \o (IF config.artifact = "ArcaneTome" /\ config.artifact_level > 0
                THEN << IF config.artifact_level = 1
                        THEN ArcaneTomeEffect(adv_atk_mult, 4, 500)
                        ELSE ArcaneTomeEffect(adv_atk_mult, 3, 750) >>
                ELSE <<>>) ]

\* ------------------------------------------------------------------------
\* The battle loop (core.py, simulate_adventurer and
\* simulate_adventurer_with_log, called by run_simulation)
\* ------------------------------------------------------------------------

\* The state simulate_adventurer sets up before its first round
NewBattleState(config, rng) ==
    [BattleState EXCEPT
        !.rng = rng,
        !.debug = config.debug,
        !.debug_logs = <<>>,
        !.base_global_bonus = config.base_global_bonus,
        !.base_inbattle_bonus = config.base_inbattle_bonus,
        !.base_final_bonus = config.base_final_bonus,
        !.base_global_skill_bonus = config.base_global_skill_bonus,
        !.base_global_lightning_bonus = config.base_global_lightning_bonus,
        !.base_global_ninjutsu_bonus = config.base_global_ninjutsu_bonus,
        !.base_final_skill_bonus = config.base_final_skill_bonus,
        !.base_final_lightning_bonus = config.base_final_lightning_bonus,
        !.base_inbattle_basic_bonus = config.base_inbattle_basic_bonus,
        !.base_inbattle_skill_bonus = config.base_inbattle_skill_bonus,
        !.base_inbattle_lightning_bonus =
            config.base_inbattle_lightning_bonus,
        !.lightning_charge_step = config.lightning_charge_step,
        !.dynamic_inbattle_lightning_bonus = 0,
        !.lightning_charge_stacks = 0,
        !.dynamic_global_ninjutsu_bonus = 0,
        !.lightning_as_ninjutsu = FALSE]

SeedsOf_SeedIgnored(config) == 0 .. 15

\* The seeds random.Random(seed) may start from: the configured one, or any
\* when the configuration gives none
SeedsOf(config) ==
    IF config.seed = {} THEN 0 .. 15
    ELSE { RngSeed(seed) : seed \in config.seed }

NoHit == HitContext("none", 0)

NoCounts == [ hits |-> 0, bolts |-> 0, artifact |-> 0 ]

\* b0, f0, br0, bolt0, other0 of simulate_adventurer_with_log
Snapshot(st) ==
    [ basic |-> st.dmg_basic, flame |-> st.dmg_flame,
      breath |-> st.dmg_breath, bolt |-> st.dmg_bolt,
      other |-> st.dmg_other ]

\* ------------------------------------------------------------------------
\* The model's bounds and the configurations it runs
\* ------------------------------------------------------------------------

MaxRounds == 6
MaxHits == 2
MaxSeed == 1

\* Equipment: every combination of weapon, ring, lightning skills, artifact
EquipConfigs ==
    { [SimulationConfig EXCEPT
          !.adventurer = "Nobody",
          !.weapon = w, !.use_ezra_ring = ez,
          !.use_extra_end_bolts = ex, !.basic_atk_bolt_level = bl,
          !.five_bolts_from_round6 = fv,
          !.artifact = IF al = 0 THEN None ELSE "ArcaneTome",
          !.artifact_level = al,
          !.lightning_charge_step = step,
          !.seed = {sd},
          !.rounds = MaxRounds, !.basic_hits_per_round = MaxHits] :
        w \in {None, "Nashir"}, ez \in BOOLEAN, ex \in BOOLEAN,
        bl \in 0 .. 2, fv \in BOOLEAN, al \in 0 .. 2,
        step \in {0, 6}, sd \in 0 .. MaxSeed }

\* Three outfits for the adventurers: bare, Nashir with the end-of-round
\* bolts, and Nashir with ring, on-hit bolts, tome and lightning charge
Outfits ==
    { [SimulationConfig EXCEPT !.use_extra_end_bolts = FALSE],
      [SimulationConfig EXCEPT !.weapon = "Nashir"],
      [SimulationConfig EXCEPT
          !.weapon = "Nashir", !.use_ezra_ring = TRUE,
          !.basic_atk_bolt_level = 1, !.artifact = "ArcaneTome",
          !.artifact_level = 1, !.lightning_charge_step = 6] }

AdventurerConfigs ==
    { [o EXCEPT !.adventurer = a, !.star = st, !.combo_mastery = cm,
                !.seed = {sd},
                !.rounds = MaxRounds, !.basic_hits_per_round = MaxHits] :
        o \in Outfits, a \in {"DG", "Leo", "Daji"},
        st \in {0, 2, 4, 5, 7, 8, 10}, cm \in BOOLEAN, sd \in 0 .. MaxSeed }

\* The defaults, with one name the builder does not know, and the defaults
\* without the end-of-round bolts for one round of one hit
DefaultConfigs ==
    { [SimulationConfig EXCEPT !.adventurer = "Nobody"],
      [SimulationConfig EXCEPT !.weapon = "Sword"],
      [SimulationConfig EXCEPT !.artifact = "Scroll"],
      [SimulationConfig EXCEPT !.adventurer = "Nobody",
                               !.use_extra_end_bolts = FALSE,
                               !.rounds = 1, !.basic_hits_per_round = 1] }

\* The full outfit with debugging, doubled bolts and the bonuses of
\* configs/dg10_nashir_light_combo.py
TunedConfigs ==
    { [SimulationConfig EXCEPT
          !.adventurer = a, !.star = 10, !.weapon = "Nashir",
          !.use_ezra_ring = TRUE, !.basic_atk_bolt_level = 1,
          !.five_bolts_from_round6 = TRUE,
          !.artifact = "ArcaneTome", !.artifact_level = 1,
          !.lightning_charge_step = 6,
          !.multiple_lightning_factor = mf, !.debug = dbg,
          !.base_final_bonus = 26, !.base_global_skill_bonus = 16,
          !.base_global_lightning_bonus = 30,
          !.base_final_skill_bonus = 15, !.base_final_lightning_bonus = 25,
          !.seed = {0},
          !.rounds = MaxRounds, !.basic_hits_per_round = MaxHits] :
        a \in {"DG", "Leo", "Nobody"}, mf \in 1 .. 2, dbg \in BOOLEAN }

\* No seed given: Nashir with the end-of-round bolts, and with on-hit bolts
UnseededConfigs ==
    { [SimulationConfig EXCEPT
          !.adventurer = a, !.weapon = "Nashir",
          !.basic_atk_bolt_level = bl,
          !.rounds = MaxRounds, !.basic_hits_per_round = MaxHits] :
        a \in {"DG", "Nobody"}, bl \in 0 .. 1 }

\* One round of one hit
ShortConfigs ==
    { [SimulationConfig EXCEPT
          !.adventurer = a, !.weapon = w, !.use_extra_end_bolts = (w # None),
          !.seed = sd, !.rounds = 1, !.basic_hits_per_round = 1] :
        a \in {"DG", "Leo", "Nobody"}, w \in {None, "Nashir"},
        sd \in {{}, {0}} }

\* Nashir with on-hit and end-of-round bolts multiplied three times: 6 bolts
\* after three basic hits in four and 10 at the end of the round, more than
\* 99 in the three rounds before the lightning charge reset
ChargedConfigs ==
    { [SimulationConfig EXCEPT
          !.adventurer = "Nobody", !.weapon = "Nashir",
          !.basic_atk_bolt_level = 2,
          !.lightning_charge_step = 6, !.multiple_lightning_factor = 3,
          !.seed = {0}, !.rounds = 3, !.basic_hits_per_round = 7] }

\* Dragon Girl with Combo Mastery for two rounds of 51 hits: 100 combo hits
ComboConfigs ==
    { [SimulationConfig EXCEPT
          !.adventurer = "DG", !.combo_mastery = TRUE,
          !.use_extra_end_bolts = FALSE,
          !.seed = {0}, !.rounds = 2, !.basic_hits_per_round = 51] }

\* A global bonus of -200%: the bonus fields are floats the program takes
\* as given
DebuffConfigs ==
    { [SimulationConfig EXCEPT
          !.adventurer = "Nobody", !.weapon = w,
          !.use_extra_end_bolts = (w # None),
          !.base_global_bonus = -200,
          !.seed = {0}, !.rounds = 2, !.basic_hits_per_round = 1] :
        w \in {None, "Nashir"} }

\* Dragon Girl at 5 stars with Nashir for three rounds of 7 hits: 24 gains
\* of dragon stacks
StackConfigs ==
    { [SimulationConfig EXCEPT
          !.adventurer = "DG", !.star = 5, !.weapon = "Nashir",
          !.seed = {0}, !.rounds = 3, !.basic_hits_per_round = 7] }

Configs == EquipConfigs \cup AdventurerConfigs \cup DefaultConfigs
           \cup TunedConfigs \cup UnseededConfigs \cup ShortConfigs
           \cup ChargedConfigs \cup ComboConfigs \cup DebuffConfigs
           \cup StackConfigs

VARIABLES
    cfg,          \* the SimulationConfig of the run
    with_log,     \* run_simulation's with_log
    pc,           \* where the battle loop stands
    r,            \* the round loop's r
    h,            \* the hit loop's h
    adv_atk_mult, \* the adventurer multiplier the builder returned
    state,        \* the BattleState
    effects,      \* the effect objects, in registration order
    ctx,          \* the basic hit in progress
    trace,        \* what has happened in the current round
    counts,       \* the hits resolved so far in the run
    snap,         \* the bucket values at the start of the round (with log)
    round_log,    \* the per-round records (with log)
    run,          \* which call of run_simulation this is
    prev,         \* what the call before this one returned
    call,         \* a compute_hit_damage call on its own: the arguments
    ret           \* ... and what it returned

vars == << cfg, with_log, pc, r, h, adv_atk_mult, state, effects, ctx, trace,
           counts, snap, round_log, run, prev, call, ret >>

NoCall == [ ctx |-> NoHit, state |-> BattleState ]

NoRet == [ done |-> FALSE, dmg |-> <<>>, state |-> BattleState,
           ctx |-> NoHit ]

NoPrev == [ outcome |-> "none", buckets |-> <<>>, round_log |-> <<>> ]

\* run_simulation(config, with_log) up to the first round of the loop
StartRun(config, log, rng) ==
    LET b == build_effects_from_config(config)
    IN  [ cfg |-> config, with_log |-> log,
          adv_atk_mult |-> b.adv_atk_mult,
          effects |-> b.effects,
          state |-> NewBattleState(config, rng),
          pc |-> IF config.rounds >= 1 THEN "round_start" ELSE "done",
          snap |-> Snapshot(BattleState) ]

Init ==
    /\ \E config \in Configs, log \in BOOLEAN :
          \E rng \in SeedsOf(config) :
             LET s == StartRun(config, log, rng)
             IN  /\ cfg = s.cfg
                 /\ with_log = s.with_log
                 /\ adv_atk_mult = s.adv_atk_mult
                 /\ effects = s.effects
                 /\ state = s.state
                 /\ pc = s.pc
                 /\ snap = s.snap
    /\ r = 1
    /\ h = 1
    /\ ctx = NoHit
    /\ trace = <<>>
    /\ counts = NoCounts
    /\ round_log = <<>>
    /\ run = 1
    /\ prev = NoPrev
    /\ call = NoCall
    /\ ret = NoRet

Machine ==
    [ state |-> state, effects |-> effects, ctx |-> ctx, trace |-> trace,
      counts |-> counts, raised |-> FALSE, dmg |-> <<>> ]

\* The machine after a step, and where the loop goes next
Commit(m, next) ==
    /\ state' = m.state
    /\ effects' = m.effects
    /\ ctx' = m.ctx
    /\ trace' = m.trace
    /\ counts' = m.counts
    /\ pc' = IF m.raised THEN "raised" ELSE next

AfterHits == "end_adventurer"

\* state.round_index = r; for e in effects: e.on_round_start(state)
RoundStart ==
    /\ pc = "round_start"
    /\ LET m0 == [Machine EXCEPT !.state.round_index = r, !.trace = <<>>,
                                 !.ctx = NoHit]
       IN  /\ Commit(Scan("on_round_start", m0),
                     IF cfg.basic_hits_per_round >= 1 THEN "before_hit"
                                                      ELSE AfterHits)
           /\ snap' = IF with_log THEN Snapshot(state) ELSE snap
    /\ h' = 1
    /\ UNCHANGED << cfg, with_log, r, adv_atk_mult, round_log, run, prev,
                    call, ret >>

BasicHit_AsSkill(hit) ==
    [HitContext(DamageType.OTHER_SKILL, 100) EXCEPT
        !.is_basic = (hit = 1), !.is_combo = (hit >= 2),
        !.hit_index_in_round = hit,
        !.atk_mult_adventurer = adv_atk_mult,
        !.tags = {"basic"}]

\* The HitContext the loop builds for basic hit h
BasicHit(hit) ==
    [HitContext(DamageType.BASIC, 100) EXCEPT
        !.is_basic = (hit = 1), !.is_combo = (hit >= 2),
        !.hit_index_in_round = hit,
        !.atk_mult_adventurer = adv_atk_mult,
        !.tags = {"basic"}]

\* ctx = HitContext(...); for e in effects: e.on_before_hit(state, ctx)
BeforeHit ==
    /\ pc = "before_hit"
    /\ Commit(Scan("on_before_hit", [Machine EXCEPT !.ctx = BasicHit(h)]),
              "resolve")
    /\ UNCHANGED << cfg, with_log, r, h, adv_atk_mult, snap, round_log,
                    run, prev, call, ret >>

\* ctx.damage_done = dmg
SetDamageDone(m) == [m EXCEPT !.ctx.damage_done = m.dmg]

\* dmg = compute_hit_damage(ctx, state); ctx.damage_done = dmg;
\* state.dmg_basic += dmg
ResolveHit ==
    /\ pc = "resolve"
    /\ Commit(AddLast(SetDamageDone(Resolve(Machine, ctx, 0)), "dmg_basic", 0),
              "after_hit")
    /\ UNCHANGED << cfg, with_log, r, h, adv_atk_mult, snap, round_log,
                    run, prev, call, ret >>

\* for e in effects: e.on_after_hit(state, ctx); then the next hit, if any
AfterHit ==
    /\ pc = "after_hit"
    /\ Commit(Scan("on_after_hit", Machine),
              IF h < cfg.basic_hits_per_round THEN "before_hit"
                                              ELSE AfterHits)
    /\ h' = h + 1
    /\ UNCHANGED << cfg, with_log, r, adv_atk_mult, snap, round_log,
                    run, prev, call, ret >>

\* 1) Adventurer end-of-round skills
EndRoundAdventurer ==
    /\ pc = "end_adventurer"
    /\ Commit(Scan("on_end_round_adventurer", [Machine EXCEPT !.ctx = NoHit]),
              "end_skills")
    /\ UNCHANGED << cfg, with_log, r, h, adv_atk_mult, snap, round_log,
                    run, prev, call, ret >>

\* 2) End-of-round skill procs
EndRoundSkills ==
    /\ pc = "end_skills"
    /\ Commit(Scan("on_end_round_skills", Machine), "end_buffs_expire")
    /\ UNCHANGED << cfg, with_log, r, h, adv_atk_mult, snap, round_log,
                    run, prev, call, ret >>

\* 3) Buffs with round limit expire here
EndRoundBuffsExpire ==
    /\ pc = "end_buffs_expire"
    /\ Commit(Scan("on_end_round_buffs_expire", Machine), "charge_reset")
    /\ UNCHANGED << cfg, with_log, r, h, adv_atk_mult, snap, round_log,
                    run, prev, call, ret >>

ChargeResetDue_EveryRound(m) == m.state.lightning_charge_step > 0

\* state.lightning_charge_step > 0.0 and state.round_index % 3 == 0
ChargeResetDue(m) ==
    m.state.lightning_charge_step > 0 /\ m.state.round_index % 3 = 0

\* Lightning Charge reset every 3 rounds
ChargeReset ==
    /\ pc = "charge_reset"
    /\ Commit(IF ChargeResetDue(Machine)
              THEN [Logged(Machine, Ev("reset", 0, "lightning_charge", 0, {}))
                      EXCEPT !.state.lightning_charge_stacks = 0,
                             !.state.dynamic_inbattle_lightning_bonus = 0]
              ELSE Machine,
              "end_charge_release")
    /\ UNCHANGED << cfg, with_log, r, h, adv_atk_mult, snap, round_log,
                    run, prev, call, ret >>

\* 4) Charge release
EndRoundChargeRelease ==
    /\ pc = "end_charge_release"
    /\ Commit(Scan("on_end_round_charge_release", Machine), "round_end")
    /\ UNCHANGED << cfg, with_log, r, h, adv_atk_mult, snap, round_log,
                    run, prev, call, ret >>

RoundRecord_Cumulative ==
    [ round |-> r,
      basic |-> BigNorm(state.dmg_basic),
      flame |-> BigNorm(state.dmg_flame),
      breath |-> BigNorm(state.dmg_breath),
      bolt |-> BigNorm(state.dmg_bolt),
      other |-> BigNorm(state.dmg_other) ]

\* The record simulate_adventurer_with_log appends for round r
RoundRecord ==
    [ round |-> r,
      basic |-> BigSub(state.dmg_basic, snap.basic),
      flame |-> BigSub(state.dmg_flame, snap.flame),
      breath |-> BigSub(state.dmg_breath, snap.breath),
      bolt |-> BigSub(state.dmg_bolt, snap.bolt),
      other |-> BigSub(state.dmg_other, snap.other) ]

\* The end of the loop body: the round's record (with log), then the next
\* round, or the return after the last one
RoundEnd ==
    /\ pc = "round_end"
    /\ round_log' = IF with_log THEN Append(round_log, RoundRecord)
                                ELSE round_log
    /\ r' = r + 1
    /\ pc' = IF r < cfg.rounds THEN "round_start" ELSE "done"
    /\ UNCHANGED << cfg, with_log, h, adv_atk_mult, state, effects, ctx,
                    trace, counts, snap, run, prev, call, ret >>

Next ==
    \/ RoundStart
    \/ BeforeHit
    \/ ResolveHit
    \/ AfterHit
    \/ EndRoundAdventurer
    \/ EndRoundSkills
    \/ EndRoundBuffsExpire
    \/ ChargeReset
    \/ EndRoundChargeRelease
    \/ RoundEnd

Spec == Init /\ [][Next]_vars

\* ------------------------------------------------------------------------
\* compute_hit_damage called on its own, on contexts and states drawn from
\* the values the program builds
\* ------------------------------------------------------------------------

\* The tags the program puts on hits
FormulaTags == SUBSET { "basic", "skill", "lightning", "bolt", "ninjutsu" }

\* The context's own bonuses: none, the spec's example, one per bracket
FormulaCtxBonuses ==
    { [ global |-> 0, inbattle |-> 0, final |-> 0 ],
      [ global |-> 50, inbattle |-> 0, final |-> 20 ],
      [ global |-> 30, inbattle |-> 7, final |-> 11 ] }

FormulaContexts ==
    { [HitContext(dt, coeff) EXCEPT
          !.atk_mult_adventurer = adv, !.atk_mult_buff = buff,
          !.global_bonus = b.global, !.inbattle_bonus = b.inbattle,
          !.final_bonus = b.final, !.tags = tags] :
        dt \in { DamageType.BASIC, DamageType.OTHER_SKILL,
                 DamageType.DRAGON_BREATH },
        coeff \in { 100, 36 }, adv \in { 100, 115 }, buff \in { 100, 120 },
        b \in FormulaCtxBonuses, tags \in FormulaTags }

\* A state whose bonuses are all different, so that each bracket total
\* tells which of them went into it
WeightedState(step, stacks) ==
    [BattleState EXCEPT
        !.base_global_bonus = 1, !.base_global_skill_bonus = 2,
        !.base_global_lightning_bonus = 4,
        !.base_global_ninjutsu_bonus = 8,
        !.dynamic_global_ninjutsu_bonus = 60,
        !.base_inbattle_bonus = 1, !.base_inbattle_basic_bonus = 2,
        !.base_inbattle_skill_bonus = 4,
        !.base_inbattle_lightning_bonus = 8,
        !.base_final_bonus = 1, !.base_final_skill_bonus = 2,
        !.base_final_lightning_bonus = 4,
        !.temp_final_lightning_bonus = 20,
        !.lightning_charge_step = step,
        !.lightning_charge_stacks = stacks,
        !.dynamic_inbattle_lightning_bonus = stacks * step,
        !.round_index = 2]

FormulaStates ==
    { [st EXCEPT !.debug = dbg] :
        st \in { BattleState, WeightedState(0, 0) }
               \cup { WeightedState(6, k) : k \in { 0, 4, 98, 99 } },
        dbg \in BOOLEAN }

InitFormula ==
    /\ call \in [ ctx : FormulaContexts, state : FormulaStates ]
    /\ ret = NoRet
    /\ pc = "call"
    /\ cfg = SimulationConfig
    /\ with_log = FALSE
    /\ adv_atk_mult = 100
    /\ effects = <<>>
    /\ state = BattleState
    /\ snap = Snapshot(BattleState)
    /\ r = 1
    /\ h = 1
    /\ ctx = NoHit
    /\ trace = <<>>
    /\ counts = NoCounts
    /\ round_log = <<>>
    /\ run = 1
    /\ prev = NoPrev

\* dmg = compute_hit_damage(ctx, state)
CallComputeHitDamage ==
    /\ pc = "call"
    /\ LET res == compute_hit_damage(call.ctx, call.state)
       IN  ret' = [ done |-> TRUE, dmg |-> res.dmg, state |-> res.state,
                    ctx |-> res.ctx ]
    /\ pc' = "returned"
    /\ UNCHANGED << cfg, with_log, r, h, adv_atk_mult, state, effects, ctx,
                    trace, counts, snap, round_log, run, prev, call >>

NextFormula == CallComputeHitDamage

SpecFormula == InitFormula /\ [][NextFormula]_vars

\* ------------------------------------------------------------------------
\* run_simulation called twice on one configuration
\* ------------------------------------------------------------------------

TwiceConfigs ==
    { c \in AdventurerConfigs : c.star \in {2, 10} }
    \cup TunedConfigs \cup UnseededConfigs \cup ShortConfigs
    \cup DefaultConfigs

InitTwice ==
    /\ \E config \in TwiceConfigs, log \in BOOLEAN :
          \E rng \in SeedsOf(config) :
             LET s == StartRun(config, log, rng)
             IN  /\ cfg = s.cfg
                 /\ with_log = s.with_log
                 /\ adv_atk_mult = s.adv_atk_mult
                 /\ effects = s.effects
                 /\ state = s.state
                 /\ pc = s.pc
                 /\ snap = s.snap
    /\ r = 1
    /\ h = 1
    /\ ctx = NoHit
    /\ trace = <<>>
    /\ counts = NoCounts
    /\ round_log = <<>>
    /\ run = 1
    /\ prev = NoPrev
    /\ call = NoCall
    /\ ret = NoRet

\* What a call of run_simulation gives its caller: the buckets of the
\* returned state and the per-round log, or the exception
Outcome ==
    [ outcome |-> pc,
      buckets |-> [ b \in Buckets |-> state[b] ],
      round_log |-> round_log ]

\* The second call: the effects are built and the generator is seeded anew
RunAgain ==
    /\ pc \in {"done", "raised"}
    /\ run = 1
    /\ prev' = Outcome
    /\ run' = 2
    /\ \E rng \in SeedsOf(cfg) :
          LET s == StartRun(cfg, with_log, rng)
          IN  /\ adv_atk_mult' = s.adv_atk_mult
              /\ effects' = s.effects
              /\ state' = s.state
              /\ pc' = s.pc
              /\ snap' = s.snap
    /\ r' = 1
    /\ h' = 1
    /\ ctx' = NoHit
    /\ trace' = <<>>
    /\ counts' = NoCounts
    /\ round_log' = <<>>
    /\ UNCHANGED << cfg, with_log, call, ret >>

NextTwice ==
    \/ Next
    \/ RunAgain

SpecTwice == InitTwice /\ [][NextTwice]_vars

\* ------------------------------------------------------------------------
\* run_simulation called on a seeded configuration with debug off, and then
\* on the same configuration with debug on
\* ------------------------------------------------------------------------

\* What a finished call leaves to its caller besides the debug log: how it
\* ended, the state, the effect objects, the hits resolved and the per-round
\* log
Returned ==
    [ outcome |-> pc,
      state |-> [state EXCEPT !.debug = FALSE, !.debug_logs = <<>>],
      effects |-> effects,
      counts |-> counts,
      round_log |-> round_log ]

\* The second call: config.debug = True, the effects built and the
\* generator seeded anew
RunWithDebug ==
    /\ pc \in {"done", "raised"}
    /\ run = 1
    /\ ~cfg.debug
    /\ cfg.seed # {}
    /\ prev' = Returned
    /\ run' = 2
    /\ cfg' = [cfg EXCEPT !.debug = TRUE]
    /\ \E rng \in SeedsOf(cfg) :
          LET s == StartRun([cfg EXCEPT !.debug = TRUE], with_log, rng)
          IN  /\ adv_atk_mult' = s.adv_atk_mult
              /\ effects' = s.effects
              /\ state' = s.state
              /\ pc' = s.pc
              /\ snap' = s.snap
    /\ r' = 1
    /\ h' = 1
    /\ ctx' = NoHit
    /\ trace' = <<>>
    /\ counts' = NoCounts
    /\ round_log' = <<>>
    /\ UNCHANGED << with_log, call, ret >>

NextDebug ==
    \/ Next
    \/ RunWithDebug

SpecDebug == InitTwice /\ [][NextDebug]_vars

\* ------------------------------------------------------------------------
\* simulate_adventurer called on a seeded configuration, and then
\* simulate_adventurer_with_log on the same arguments
\* ------------------------------------------------------------------------

\* The second call: with_log = True, the effects built and the generator
\* seeded anew
RunWithLog ==
    /\ pc \in {"done", "raised"}
    /\ run = 1
    /\ ~with_log
    /\ cfg.seed # {}
    /\ prev' = Returned
    /\ run' = 2
    /\ with_log' = TRUE
    /\ \E rng \in SeedsOf(cfg) :
          LET s == StartRun(cfg, TRUE, rng)
          IN  /\ adv_atk_mult' = s.adv_atk_mult
              /\ effects' = s.effects
              /\ state' = s.state
              /\ pc' = s.pc
              /\ snap' = s.snap
    /\ r' = 1
    /\ h' = 1
    /\ ctx' = NoHit
    /\ trace' = <<>>
    /\ counts' = NoCounts
    /\ round_log' = <<>>
    /\ UNCHANGED << cfg, call, ret >>

NextLog ==
    \/ Next
    \/ RunWithLog

SpecLog == InitTwice /\ [][NextLog]_vars

\* ------------------------------------------------------------------------
\* simulate_adventurer called twice in succession with one effect list:
\* effects, adv_atk_mult = build_effects_from_config(config), then two calls
\* with these effects, the same arguments and the same seed
\* ------------------------------------------------------------------------

\* The second call: a new BattleState and a newly seeded generator, and the
\* effect objects as the first call left them
RunSameEffects ==
    /\ pc \in {"done", "raised"}
    /\ run = 1
    /\ prev' = Outcome
    /\ run' = 2
    /\ \E rng \in SeedsOf(cfg) :
          /\ state' = NewBattleState(cfg, rng)
          /\ pc' = IF cfg.rounds >= 1 THEN "round_start" ELSE "done"
          /\ snap' = Snapshot(BattleState)
    /\ r' = 1
    /\ h' = 1
    /\ ctx' = NoHit
    /\ trace' = <<>>
    /\ counts' = NoCounts
    /\ round_log' = <<>>
    /\ UNCHANGED << cfg, with_log, adv_atk_mult, effects, call, ret >>

NextReuse ==
    \/ Next
    \/ RunSameEffects

SpecReuse == InitTwice /\ [][NextReuse]_vars

\* ------------------------------------------------------------------------
\* The Arcane Tome on its own: rounds start and hits of any kind are
\* reported to its on_after_hit
\* ------------------------------------------------------------------------

MaxTomeRounds == 3
MaxTomeHits == 13

TomeConfigs ==
    { [SimulationConfig EXCEPT
          !.adventurer = "Nobody", !.use_extra_end_bolts = FALSE,
          !.artifact = "ArcaneTome", !.artifact_level = lvl] :
        lvl \in 1 .. 2 }

\* The hits reported: a bolt as Nashir builds it, and the loop's basic hit
TomeHits ==
    { [HitContext(DamageType.OTHER_SKILL, 36) EXCEPT
          !.tags = {"skill", "lightning", "bolt"}],
      [HitContext(DamageType.BASIC, 100) EXCEPT
          !.is_basic = TRUE, !.tags = {"basic"}] }

InitTome ==
    /\ \E config \in TomeConfigs :
          LET s == StartRun(config, FALSE, 0)
          IN  /\ cfg = s.cfg
              /\ with_log = s.with_log
              /\ adv_atk_mult = s.adv_atk_mult
              /\ effects = s.effects
              /\ state = s.state
              /\ snap = s.snap
    /\ pc = "tome"
    /\ r = 0
    /\ h = 0
    /\ ctx = NoHit
    /\ trace = <<>>
    /\ counts = NoCounts
    /\ round_log = <<>>
    /\ run = 1
    /\ prev = NoPrev
    /\ call = NoCall
    /\ ret = NoRet

\* state.round_index = r + 1; tome.on_round_start(state)
TomeRoundStart ==
    /\ pc = "tome"
    /\ r < MaxTomeRounds
    /\ Commit(Tome_on_round_start(
                  [Machine EXCEPT !.state.round_index = r + 1,
                                  !.trace = <<>>], 1),
              "tome")
    /\ r' = r + 1
    /\ h' = 0
    /\ UNCHANGED << cfg, with_log, adv_atk_mult, snap, round_log, run, prev,
                    call, ret >>

\* tome.on_after_hit(state, hit)
TomeAfterHit ==
    /\ pc = "tome"
    /\ r >= 1
    /\ h < MaxTomeHits
    /\ \E hit \in TomeHits :
          Commit(Tome_on_after_hit([Machine EXCEPT !.ctx = hit], 1, hit),
                 "tome")
    /\ h' = h + 1
    /\ UNCHANGED << cfg, with_log, r, adv_atk_mult, snap, round_log, run,
                    prev, call, ret >>

NextTome ==
    \/ TomeRoundStart
    \/ TomeAfterHit

SpecTome == InitTome /\ [][NextTome]_vars

\* ------------------------------------------------------------------------
\* Daji's effects on their own: simulate_adventurer(1.15,
\* daji_effects_for_star(star, False), rounds, hits, seed), the loop that
\* run_simulation drives, on the state it builds and on a state whose Daji
\* attributes the caller has assigned beforehand
\* ------------------------------------------------------------------------

MaxDajiRounds == 3

DajiStars == { 0, 4, 5, 8, 10 }

DajiConfigs ==
    { [SimulationConfig EXCEPT
          !.adventurer = "Daji", !.star = s, !.use_extra_end_bolts = FALSE,
          !.seed = {0}, !.rounds = n, !.basic_hits_per_round = 1] :
        s \in DajiStars, n \in { 2, MaxDajiRounds } }

\* The BattleState of simulate_adventurer, and the same with the attributes
\* DajiFormEffect reads added to it (as class attributes, or by an effect
\* registered ahead of it): the gauge anywhere up to its cap, outside Fox
\* Form or in a form that ends with round 1 or 2
DajiStates(config) ==
    { NewBattleState(config, 0) }
    \cup
    { [NewBattleState(config, 0) EXCEPT
          !.daji_fox_form_active = {active},
          !.daji_fox_form_expires_after_round = {IF active THEN exp ELSE 0},
          !.daji_fox_first_skill_pending = {FALSE},
          !.daji_aura_stacks = {stacks},
          !.dynamic_global_demonic_bonus = {0},
          !.lightning_as_demonic = {active /\ config.star >= 5}] :
        active \in BOOLEAN, exp \in 1 .. 2, stacks \in 0 .. 9 }

\* call.state keeps the state the run was started on
InitDaji ==
    /\ \E config \in DajiConfigs :
          \E st \in DajiStates(config) :
             /\ cfg = config
             /\ state = st
             /\ call = [ ctx |-> NoHit, state |-> st ]
             /\ effects = daji_effects_for_star(config.star, FALSE)
    /\ with_log = FALSE
    /\ adv_atk_mult = 115
    /\ snap = Snapshot(BattleState)
    /\ pc = "round_start"
    /\ r = 1
    /\ h = 1
    /\ ctx = NoHit
    /\ trace = <<>>
    /\ counts = NoCounts
    /\ round_log = <<>>
    /\ run = 1
    /\ prev = NoPrev
    /\ ret = NoRet

SpecDaji == InitDaji /\ [][Next]_vars

\* DajiFormEffect in the battle loop next to the bolts of Nashir, of the
\* end-of-round skill and of Ezra's ring, with the debug log: the effect
\* list of the builder (which registers nothing for Daji) followed by
\* daji_effects_for_star, on the states of DajiStates
FoxConfigs ==
    { [SimulationConfig EXCEPT
          !.adventurer = "Daji", !.star = s, !.weapon = "Nashir",
          !.use_ezra_ring = ez, !.debug = TRUE,
          !.seed = {0}, !.rounds = MaxDajiRounds,
          !.basic_hits_per_round = 1] :
        s \in DajiStars, ez \in BOOLEAN }

InitFox ==
    /\ \E config \in FoxConfigs :
          \E st \in DajiStates(config) :
             /\ cfg = config
             /\ state = st
             /\ call = [ ctx |-> NoHit, state |-> st ]
             /\ effects = build_effects_from_config(config).effects
                          \o daji_effects_for_star(config.star, FALSE)
    /\ with_log = FALSE
    /\ adv_atk_mult = 115
    /\ snap = Snapshot(BattleState)
    /\ pc = "round_start"
    /\ r = 1
    /\ h = 1
    /\ ctx = NoHit
    /\ trace = <<>>
    /\ counts = NoCounts
    /\ round_log = <<>>
    /\ run = 1
    /\ prev = NoPrev
    /\ ret = NoRet

SpecFox == InitFox /\ [][Next]_vars

\* ------------------------------------------------------------------------
\* The damage formula (checked under SpecFormula)
\* ------------------------------------------------------------------------

\* C8: compute_hit_damage returns atk_base x atk_mult_adventurer x
\* atk_mult_buff x coeff x K x (1+global_total) x (1+inbattle_total) x
\* (1+final_total), with K = 12 for damage type "basic" and K = 50 for every
\* other type, each bracket total being the context's bonus plus the state's
\* bonuses for that bracket; with attack 1000, coefficient 1, multipliers 1
\* and type basic it returns 12000 when every bonus is zero and 21600 when the
\* context's global bonus is 0.5 and its final bonus 0.2.
C8_DamageFormula ==
    ret.done =>
        LET c == call.ctx
            st == call.state
            has(tag) == tag \in c.tags
            K == IF c.damage_type = "basic" THEN 12 ELSE 50
            global_total ==
                c.global_bonus + st.base_global_bonus
                + (IF has("skill") THEN st.base_global_skill_bonus ELSE 0)
                + (IF has("lightning") THEN st.base_global_lightning_bonus
                                       ELSE 0)
                + (IF has("ninjutsu")
                   THEN st.base_global_ninjutsu_bonus
                        + st.dynamic_global_ninjutsu_bonus
                   ELSE 0)
            inbattle_total ==
                c.inbattle_bonus + st.base_inbattle_bonus
                + (IF has("basic") THEN st.base_inbattle_basic_bonus ELSE 0)
                + (IF has("skill") THEN st.base_inbattle_skill_bonus ELSE 0)
                + (IF has("lightning")
                   THEN st.base_inbattle_lightning_bonus
                        + st.dynamic_inbattle_lightning_bonus
                   ELSE 0)
            final_total ==
                c.final_bonus + st.base_final_bonus
                + (IF has("skill") THEN st.base_final_skill_bonus ELSE 0)
                + (IF has("lightning")
                   THEN st.base_final_lightning_bonus
                        + st.temp_final_lightning_bonus
                   ELSE 0)
            \* the product, factor by factor, in units of 10^-12
            product ==
                BigMul(BigMul(BigMul(BigMul(BigMul(BigMul(BigMul(
                    BigOfNat(c.atk_base), c.atk_mult_adventurer),
                    c.atk_mult_buff), c.coeff), K),
                    100 + global_total), 100 + inbattle_total),
                    100 + final_total)
            plain == /\ c.atk_base = 1000 /\ c.coeff = 100
                     /\ c.atk_mult_adventurer = 100 /\ c.atk_mult_buff = 100
                     /\ c.damage_type = "basic" /\ c.tags = {"basic"}
                     /\ st = [BattleState EXCEPT !.debug = st.debug]
        IN  /\ ret.dmg = product
            /\ plain /\ c.global_bonus = 0 /\ c.inbattle_bonus = 0
               /\ c.final_bonus = 0
               => ret.dmg = Dmg(12000)
            /\ plain /\ c.global_bonus = 50 /\ c.inbattle_bonus = 0
               /\ c.final_bonus = 20
               => ret.dmg = Dmg(21600)

\* A basic hit of the spec's second example (global 0.5, final 0.2) has
\* returned 21600
C8_Witness ==
    /\ ret.done
    /\ call.ctx.damage_type = "basic"
    /\ call.ctx.coeff = 100
    /\ call.ctx.atk_mult_adventurer = 100
    /\ call.ctx.atk_mult_buff = 100
    /\ call.ctx.global_bonus = 50
    /\ call.ctx.final_bonus = 20
    /\ call.ctx.tags = {"basic"}
    /\ call.state = BattleState
    /\ ret.dmg = Dmg(21600)

\* C9: a tag-conditional state bonus goes into a bracket if and only if its
\* tag is in ctx.tags.  The totals are the ones compute_hit_damage reports in
\* its debug record; the bonuses of the state are such that a total is the
\* sum of one set of them only, and that set is the one of the hit's tags.
\* A hit tagged skill and lightning (and not
\* ninjutsu) has both the skill and the lightning global bonus, a hit tagged
\* only basic has neither, and a hit tagged ninjutsu has the static and the
\* dynamic ninjutsu global bonus.
C9_TagConditionalBonuses ==
    (ret.done /\ call.state.debug /\ call.state.base_global_skill_bonus = 2) =>
        LET c == call.ctx
            st == call.state
            log == ret.state.debug_logs[Len(ret.state.debug_logs)]
            \* what the state added to each bracket beyond its generic bonus
            g == log.global_total - c.global_bonus - st.base_global_bonus
            i == log.inbattle_total - c.inbattle_bonus
                 - st.base_inbattle_bonus
            f == log.final_total - c.final_bonus - st.base_final_bonus
            light_i == st.base_inbattle_lightning_bonus
                       + st.dynamic_inbattle_lightning_bonus
            light_f == st.base_final_lightning_bonus
                       + st.temp_final_lightning_bonus
            ninj_g == st.base_global_ninjutsu_bonus
                      + st.dynamic_global_ninjutsu_bonus
            tagged(tag) == tag \in c.tags
        IN  /\ \E sk, li, ni \in BOOLEAN :
                  g = (IF sk THEN st.base_global_skill_bonus ELSE 0)
                      + (IF li THEN st.base_global_lightning_bonus ELSE 0)
                      + (IF ni THEN ninj_g ELSE 0)
            /\ \A sk, li, ni \in BOOLEAN :
                  g = (IF sk THEN st.base_global_skill_bonus ELSE 0)
                      + (IF li THEN st.base_global_lightning_bonus ELSE 0)
                      + (IF ni THEN ninj_g ELSE 0)
                  => /\ sk = tagged("skill")
                     /\ li = tagged("lightning")
                     /\ ni = tagged("ninjutsu")
            /\ \E ba, sk, li \in BOOLEAN :
                  i = (IF ba THEN st.base_inbattle_basic_bonus ELSE 0)
                      + (IF sk THEN st.base_inbattle_skill_bonus ELSE 0)
                      + (IF li THEN light_i ELSE 0)
            /\ \A ba, sk, li \in BOOLEAN :
                  i = (IF ba THEN st.base_inbattle_basic_bonus ELSE 0)
                      + (IF sk THEN st.base_inbattle_skill_bonus ELSE 0)
                      + (IF li THEN light_i ELSE 0)
                  => /\ ba = tagged("basic")
                     /\ sk = tagged("skill")
                     /\ li = tagged("lightning")
            /\ \E sk, li \in BOOLEAN :
                  f = (IF sk THEN st.base_final_skill_bonus ELSE 0)
                      + (IF li THEN light_f ELSE 0)
            /\ \A sk, li \in BOOLEAN :
                  f = (IF sk THEN st.base_final_skill_bonus ELSE 0)
                      + (IF li THEN light_f ELSE 0)
                  => /\ sk = tagged("skill")
                     /\ li = tagged("lightning")
            /\ c.tags = {"skill", "lightning"}
               => g = st.base_global_skill_bonus
                      + st.base_global_lightning_bonus
            /\ c.tags = {"basic"} => g = 0
            /\ "ninjutsu" \in c.tags
               => g >= st.base_global_ninjutsu_bonus
                       + st.dynamic_global_ninjutsu_bonus

\* A hit tagged skill and lightning has been resolved with both bonuses in
\* its global total
C9_Witness ==
    /\ ret.done
    /\ call.state.debug
    /\ call.state.base_global_skill_bonus = 2
    /\ call.ctx.tags = {"skill", "lightning"}
    /\ ret.state.debug_logs[1].global_total
         = call.ctx.global_bonus + 1 + 2 + 4

\* C10: compute_hit_damage leaves the hit context and every field of the
\* state as they were, except lightning_charge_stacks and
\* dynamic_inbattle_lightning_bonus, and debug_logs, which gains one record
\* when debug is on and is left alone when it is off; the two lightning
\* charge fields change only when the hit is tagged bolt and lightning and
\* the charge step is positive.
C10_FormulaFrame ==
    ret.done =>
        /\ ret.ctx = call.ctx
        /\ ret.state =
             [call.state EXCEPT
                !.lightning_charge_stacks = ret.state.lightning_charge_stacks,
                !.dynamic_inbattle_lightning_bonus =
                    ret.state.dynamic_inbattle_lightning_bonus,
                !.debug_logs = ret.state.debug_logs]
        /\ ~call.state.debug
           => ret.state.debug_logs = call.state.debug_logs
        /\ call.state.debug
           => /\ Len(ret.state.debug_logs) = Len(call.state.debug_logs) + 1
              /\ SubSeq(ret.state.debug_logs, 1, Len(call.state.debug_logs))
                   = call.state.debug_logs
        /\ (\/ ret.state.lightning_charge_stacks
                 # call.state.lightning_charge_stacks
            \/ ret.state.dynamic_inbattle_lightning_bonus
                 # call.state.dynamic_inbattle_lightning_bonus)
           => /\ "bolt" \in call.ctx.tags
              /\ "lightning" \in call.ctx.tags
              /\ call.state.lightning_charge_step > 0

\* A bolt with the charge step configured has gained a stack, with debug on
C10_Witness ==
    /\ ret.done
    /\ call.state.debug
    /\ call.state.lightning_charge_step = 6
    /\ call.state.lightning_charge_stacks = 4
    /\ ret.state.lightning_charge_stacks = 5
    /\ ret.state.dynamic_inbattle_lightning_bonus = 30

\* ------------------------------------------------------------------------
\* The battle loop (checked under Spec)
\* ------------------------------------------------------------------------

\* The calls a scan of `hook` makes for hit index `hit`: one per effect that
\* has the hook, in registration order
CallsOf(hook, hit) ==
    SelectSeq([ i \in 1 .. Len(effects) |-> Ev("call", i, hook, hit, {}) ],
              LAMBDA e : hasattr(effects[e.by], hook))

\* What the loop itself does in the current round: its hook calls, its
\* damage resolutions and its additions to buckets
LoopTrace ==
    SelectSeq(trace,
              LAMBDA e : \/ e.ev = "call" /\ e.what # "on_after_bolt"
                         \/ e.ev \in {"hit", "add"} /\ e.by = 0)

RECURSIVE HitsUpTo(_)
HitsUpTo(k) ==
    IF k = 0 THEN <<>>
    ELSE HitsUpTo(k - 1)
         \o CallsOf("on_before_hit", k)
         \o << Ev("hit", 0, "basic", k, {"basic"}),
               Ev("add", 0, "dmg_basic", 0, {}) >>
         \o CallsOf("on_after_hit", k)

\* A whole round, as C1 orders it
WholeRound ==
    CallsOf("on_round_start", 1)
    \o HitsUpTo(cfg.basic_hits_per_round)
    \o CallsOf("on_end_round_adventurer", 1)
    \o CallsOf("on_end_round_skills", 1)
    \o CallsOf("on_end_round_buffs_expire", 1)
    \o CallsOf("on_end_round_charge_release", 1)

IsPrefix(a, b) == Len(a) <= Len(b) /\ a = SubSeq(b, 1, Len(a))

\* C1: in every round, whatever effects are registered, the loop calls every
\* on_round_start in registration order, then for each hit index
\* 1..basic_hits_per_round every on_before_hit, the damage resolution, the
\* addition to dmg_basic and every on_after_hit, then once each the
\* end-of-round phases adventurer, skills, buffs_expire and charge_release,
\* calling in each the effects that have the phase's hook and passing over
\* the others.  A round that has ended has done exactly this, and a round in
\* progress, or one a hook's exception has cut short, has done a prefix of it.
C1_RoundOrder ==
    /\ IsPrefix(LoopTrace, WholeRound)
    /\ (pc \in {"round_end", "done"} /\ cfg.rounds >= 1)
       => LoopTrace = WholeRound
    /\ (pc \in {"before_hit", "resolve", "after_hit"})
       => /\ IsPrefix(CallsOf("on_round_start", 1) \o HitsUpTo(h - 1),
                      LoopTrace)
          /\ h \in 1 .. cfg.basic_hits_per_round
    /\ pc = "end_adventurer"
       => LoopTrace = CallsOf("on_round_start", 1)
                      \o HitsUpTo(cfg.basic_hits_per_round)

\* A round of two hits has ended in which every end-of-round phase called
\* some effect and passed over another
C1_Witness ==
    /\ pc = "round_end"
    /\ cfg.basic_hits_per_round = MaxHits
    /\ \A hook \in { "on_end_round_adventurer", "on_end_round_skills",
                     "on_end_round_buffs_expire",
                     "on_end_round_charge_release" } :
          /\ \E k \in 1 .. Len(trace) :
                trace[k].ev = "call" /\ trace[k].what = hook
          /\ \E i \in 1 .. Len(effects) : ~hasattr(effects[i], hook)

\* The lightning charge reset is due in the round in progress
C2_Due == cfg.lightning_charge_step > 0 /\ state.round_index % 3 = 0

C2_State ==
    LET at(ev, what) == { k \in 1 .. Len(trace) :
                            trace[k].ev = ev /\ trace[k].what = what }
        resets == at("reset", "lightning_charge")
        expires == at("call", "on_end_round_buffs_expire")
        releases == at("call", "on_end_round_charge_release")
    IN  /\ ~C2_Due => resets = {}
        /\ pc \in { "before_hit", "resolve", "after_hit", "end_adventurer",
                    "end_skills", "end_buffs_expire", "charge_reset" }
           => resets = {}
        /\ (C2_Due /\ pc \in {"end_charge_release", "round_end",
                             "round_start", "done"})
           => /\ Cardinality(resets) = 1
              /\ \A k \in resets :
                    /\ \A e \in expires : e < k
                    /\ \A e \in releases : k < e
              /\ Cardinality(expires)
                   = Cardinality({ i \in 1 .. Len(effects) :
                        hasattr(effects[i], "on_end_round_buffs_expire") })
        /\ (C2_Due /\ pc = "end_charge_release")
           => /\ state.lightning_charge_stacks = 0
              /\ state.dynamic_inbattle_lightning_bonus = 0

C2_Step ==
    pc = "charge_reset" =>
        /\ C2_Due
           => state' = [state EXCEPT
                          !.lightning_charge_stacks = 0,
                          !.dynamic_inbattle_lightning_bonus = 0]
        /\ ~C2_Due => state' = state

\* C2: with lightning_charge_step > 0, in every round whose index is a
\* multiple of 3 the loop sets lightning_charge_stacks and
\* dynamic_inbattle_lightning_bonus to 0 once, after every effect's
\* on_end_round_buffs_expire and before any effect's
\* on_end_round_charge_release; in the other rounds, and with no step
\* configured, the loop resets nothing.
C2_ChargeReset == []C2_State /\ [][C2_Step]_vars

\* Round 3 has ended: the six bolts of the charge release have built six
\* stacks on the reset, which came after the ring's buff had expired
C2_Witness ==
    /\ pc = "round_end"
    /\ state.round_index = 3
    /\ cfg.lightning_charge_step > 0
    /\ \E k \in 1 .. Len(trace) : trace[k].ev = "reset"
    /\ \E k \in 1 .. Len(trace) :
          trace[k].ev = "call" /\ trace[k].what = "on_end_round_buffs_expire"
    /\ \E k \in 1 .. Len(trace) :
          trace[k].ev = "call"
          /\ trace[k].what = "on_end_round_charge_release"
    /\ state.lightning_charge_stacks = 6

\* The default configuration with one name the builder does not know
UnknownNameConfigs ==
    { [SimulationConfig EXCEPT !.adventurer = "Nobody"],
      [SimulationConfig EXCEPT !.weapon = "Sword"],
      [SimulationConfig EXCEPT !.artifact = "Scroll"] }

\* C4: with an adventurer, weapon or artifact name the builder does not know
\* and every other field at its default, run_simulation does not fail: the
\* adventurer multiplier of an unknown adventurer is 1.0, no effect of the
\* unknown adventurer, weapon or artifact is registered, and the run ends
\* all its rounds and returns.
C4_UnknownNamesRun ==
    cfg \in UnknownNameConfigs =>
        /\ pc # "raised"
        /\ cfg.adventurer = "Nobody"
           => /\ adv_atk_mult = 100
              /\ \A i \in 1 .. Len(effects) :
                    effects[i].kind = "ExtraEndOfRoundBoltsEffect"
        /\ cfg.weapon = "Sword"
           => \A i \in 1 .. Len(effects) :
                 effects[i].kind # "NashirScepterEffect"
        /\ cfg.artifact = "Scroll"
           => \A i \in 1 .. Len(effects) :
                 effects[i].kind # "ArcaneTomeEffect"

\* C5: every hit tagged "bolt" that any code resolves is followed, before
\* the next hit is resolved, by the on_after_bolt scan over the registered
\* effects (which calls on_after_bolt on every effect that defines it).
C5_BoltsBroadcast ==
    \A k \in 1 .. Len(trace) :
        (trace[k].ev = "hit" /\ "bolt" \in trace[k].tags)
        => \E j \in (k + 1) .. Len(trace) :
              /\ trace[j].ev = "broadcast"
              /\ \A l \in (k + 1) .. (j - 1) : trace[l].ev # "hit"

\* C6: with the Arcane Tome registered with bolts_per_proc = N, a run that
\* resolves at least N bolt-and-lightning-tagged hits resolves at least one
\* tome hit.
C6_TomeFires ==
    pc = "done" =>
        \A i \in 1 .. Len(effects) :
            (effects[i].kind = "ArcaneTomeEffect"
             /\ counts.bolts >= effects[i].bolts_per_proc)
            => counts.artifact >= 1

\* ------------------------------------------------------------------------
\* Two runs (checked under SpecTwice) and the tome (checked under SpecTome)
\* ------------------------------------------------------------------------

\* C3: for a configuration with a fixed seed, two calls of run_simulation
\* give the same damage buckets and the same per-round log (or end in the
\* same exception).
C3_Determinism ==
    (run = 2 /\ pc \in {"done", "raised"} /\ cfg.seed # {})
    => Outcome = prev

\* A seeded second run with Nashir's random conversions and the per-round
\* log has ended as the first did
C3_Witness ==
    /\ run = 2
    /\ pc = "done"
    /\ cfg.seed # {}
    /\ with_log
    /\ Len(round_log) = MaxRounds
    /\ cfg.weapon = "Nashir"
    /\ cfg.basic_atk_bolt_level = 1
    /\ state.dmg_bolt # <<>>
    /\ Outcome = prev

C7_State ==
    pc = "tome" =>
        LET tome == effects[1]
            fired == Cardinality({ k \in 1 .. Len(trace) :
                                     /\ trace[k].ev = "hit"
                                     /\ "artifact" \in trace[k].tags })
        IN  /\ fired <= 3
            /\ tome.procs_this_round = fired
            /\ (h = 0 /\ r >= 1) => tome.procs_this_round = 0
            /\ tome.bolt_counter >= 0

C7_Step ==
    pc = "tome" =>
        LET tome == effects[1]
            procs == counts'.artifact - counts.artifact
            bolt == IF IsBolt(ctx'.tags) THEN 1 ELSE 0
        IN  /\ r' # r
               => /\ effects'[1].bolt_counter = tome.bolt_counter
                  /\ effects'[1].procs_this_round = 0
                  /\ procs = 0
            /\ r' = r
               => /\ effects'[1].bolt_counter
                       = tome.bolt_counter + bolt
                         - procs * tome.bolts_per_proc
                  /\ effects'[1].procs_this_round
                       = tome.procs_this_round + procs
                  /\ bolt = 0 => procs = 0

\* C7: the Arcane Tome resolves at most 3 bonus hits in a round; its
\* per-round proc count is 0 after every round start; a round start leaves
\* the bolt counter as it is, so bolts counted in one round still count in
\* the next; and every proc takes exactly bolts_per_proc off the counter.
C7_TomeBudget == []C7_State /\ [][C7_Step]_vars

\* In the second round the tome has used its three procs with bolts left
\* over, after procs in the first round
C7_Witness ==
    /\ pc = "tome"
    /\ r = 2
    /\ effects[1].procs_this_round = 3
    /\ effects[1].bolt_counter >= effects[1].bolts_per_proc
    /\ counts.artifact >= 4

\* ------------------------------------------------------------------------
\* Stacks and gauges (checked under Spec)
\* ------------------------------------------------------------------------

C11_State ==
    /\ state.lightning_charge_stacks \in 0 .. 99
    /\ state.dynamic_inbattle_lightning_bonus
         = state.lightning_charge_stacks * state.lightning_charge_step
    /\ state.lightning_charge_step = 0 => state.lightning_charge_stacks = 0

\* What a step of the loop does to the stacks: the reset when it is due,
\* else one stack for each bolt-and-lightning hit resolved, up to 99
C11_Step ==
    IF pc = "charge_reset" /\ ChargeResetDue(Machine)
    THEN state'.lightning_charge_stacks = 0
    ELSE state'.lightning_charge_stacks
           = IF state.lightning_charge_step > 0
             THEN Min(state.lightning_charge_stacks
                        + (counts'.bolts - counts.bolts), 99)
             ELSE 0

\* C11: in every reachable state lightning_charge_stacks is between 0 and 99
\* and dynamic_inbattle_lightning_bonus is stacks x step; every resolved hit
\* tagged bolt and lightning adds exactly one stack while there are fewer
\* than 99, and none at 99; with step 0 the stacks stay 0.
C11_LightningCharge == []C11_State /\ [][C11_Step]_vars

\* The stacks are at the cap of 99 after more than 99 bolts since the start
C11_Witness ==
    /\ state.lightning_charge_stacks = 99
    /\ state.dynamic_inbattle_lightning_bonus = 594
    /\ counts.bolts > 99

\* A ComboMasteryEffect is registered
C12_Registered ==
    \E i \in 1 .. Len(effects) : effects[i].kind = "ComboMasteryEffect"

\* At the resolution of a basic hit, and until its on_after_hit scan, the
\* attack-buff factor is 1 + step x the stacks the hit found
C12_State ==
    /\ state.combo_stacks \in 0 .. 99
    /\ (C12_Registered /\ pc \in {"resolve", "after_hit"})
       => ctx.atk_mult_buff
            = 100 + ComboMasteryEffect.atk_step * state.combo_stacks

C12_Step ==
    state'.combo_stacks
      = IF C12_Registered /\ pc = "after_hit" /\ h >= 2
        THEN Min(state.combo_stacks + 1, 99)
        ELSE state.combo_stacks

\* C12: with ComboMasteryEffect registered, combo_stacks goes up by exactly
\* one (up to 99) in the on_after_hit scan of every basic hit of index 2 or
\* more and is left as it is by the round's first hit and by every other
\* step, round starts included; the attack-buff factor a basic hit is
\* resolved with is 1 + step x the stacks before that hit.
C12_ComboMastery == []C12_State /\ [][C12_Step]_vars

\* The hundredth combo hit has found the stacks at 99 and left them there
C12_Witness ==
    /\ C12_Registered
    /\ r = 2
    /\ h = 52
    /\ state.combo_stacks = 99
    /\ ctx.atk_mult_buff = 1090

\* ------------------------------------------------------------------------
\* Leo's basic hit (checked under Spec)
\* ------------------------------------------------------------------------

\* Leo's multi-hit effect is registered (leo_effects_for_star puts it first)
C13_Registered ==
    Len(effects) >= 1 /\ effects[1].kind = "LeoMultiHitNinjutsuEffect"

\* The damage of a hit of Leo's with the basic hit's attack values
C13_Damage(damage_type, coeff, tags) ==
    HitDamage([HitContext(damage_type, coeff) EXCEPT
                  !.atk_base = ctx.atk_base,
                  !.atk_mult_adventurer = effects[1].adv_atk_mult,
                  !.atk_mult_buff = ctx.atk_mult_buff,
                  !.global_bonus = ctx.global_bonus,
                  !.tags = tags],
              state)

\* The tags and the ninjutsu damage of one part: the basic sub-hit and, when
\* the draw `rng` succeeds at 2 stars, the ninjutsu hit of the same coefficient
C13_PartTags(rng) ==
    << {"basic"} >>
    \o (IF effects[1].has_2star /\ RngValue(rng) < 7000
        THEN << {"skill", "ninjutsu", "basic"} >> ELSE << >>)

C13_PartNinjutsu(rng, coeff) ==
    IF effects[1].has_2star /\ RngValue(rng) < 7000
    THEN C13_Damage(DamageType.OTHER_SKILL, coeff,
                    {"skill", "ninjutsu", "basic"})
    ELSE Dmg(0)

\* The hits effect 1 resolves in the step
C13_NewHits ==
    LET new == SubSeq(trace', Len(trace) + 1, Len(trace'))
        mine == SelectSeq(new, LAMBDA e : e.ev = "hit" /\ e.by = 1)
    IN  [ k \in 1 .. Len(mine) |-> mine[k].tags ]

C13_Step ==
    C13_Registered =>
      /\ pc = "resolve"
         => /\ ctx.coeff = 0
            /\ BigNorm(state'.dmg_basic) = BigNorm(state.dmg_basic)
      /\ pc = "after_hit"
         => LET d1 == IF effects[1].has_2star THEN RngNext(state.rng)
                                              ELSE state.rng
                d2 == IF effects[1].has_2star THEN RngNext(d1) ELSE d1
                d3 == IF effects[1].has_2star THEN RngNext(d2) ELSE d2
            IN  /\ C13_NewHits
                     = C13_PartTags(d1) \o C13_PartTags(d2)
                       \o C13_PartTags(d3) \o << {"skill", "ninjutsu"} >>
                /\ BigNorm(state'.dmg_basic)
                     = BigNorm(BigAdd(BigAdd(BigAdd(state.dmg_basic,
                          C13_Damage(DamageType.BASIC, 30, {"basic"})),
                          C13_Damage(DamageType.BASIC, 70, {"basic"})),
                          C13_Damage(DamageType.BASIC, 100, {"basic"})))
                /\ BigNorm(state'.dmg_other)
                     = BigNorm(BigAdd(BigAdd(BigAdd(BigAdd(state.dmg_other,
                          C13_PartNinjutsu(d1, 30)),
                          C13_PartNinjutsu(d2, 70)),
                          C13_PartNinjutsu(d3, 100)),
                          C13_Damage(DamageType.OTHER_SKILL, 100,
                                     {"skill", "ninjutsu"})))
                /\ (\A i \in 1 .. Len(effects) :
                       effects[i].kind # "BasicAttackBoltEffect")
                   => state'.rng = d3

\* C13: with Leo's multi-hit effect registered, the loop's own basic hit is
\* resolved with coefficient 0 and adds nothing to dmg_basic; its
\* on_after_hit scan resolves three basic sub-hits of coefficients 0.30, 0.70
\* and 1.00, added to dmg_basic, and then one ninjutsu hit of coefficient
\* 1.0; at 2 stars and above each sub-hit is followed by one draw which,
\* below 0.70, resolves one ninjutsu hit of the sub-hit's coefficient.
C13_LeoMultiHit == [][C13_Step]_vars

\* At 2 stars a basic hit has just been replaced: of its three draws at least
\* one has given a ninjutsu hit and at least one has not
C13_Witness ==
    /\ C13_Registered
    /\ effects[1].has_2star
    /\ pc = "before_hit"
    /\ h = 2
    /\ LET procs == Cardinality({ k \in 1 .. Len(trace) :
                       /\ trace[k].ev = "hit"
                       /\ trace[k].tags = {"skill", "ninjutsu", "basic"} })
       IN  procs \in 1 .. 2
    /\ state.dmg_basic # <<>>

\* ------------------------------------------------------------------------
\* C14: the Demonic Aura gauge (step 3, cap 9) never exceeds 9 in any
\* reachable state: an increment of 3 from a gauge within 3 of the cap, or
\* at the cap, leaves it at 9, never above.
\* ------------------------------------------------------------------------
C14_GaugeCap ==
    state.daji_aura_stacks # Absent =>
        ValueOf(state.daji_aura_stacks) \in 0 .. 9

\* A run handed a full gauge outside Fox Form: the buffs-expire phase of
\* round 1 has incremented it once more, and it reads 9
C14_Witness ==
    /\ cfg.adventurer = "Daji"
    /\ cfg.star = 0
    /\ call.state.daji_aura_stacks = {9}
    /\ call.state.daji_fox_form_active = {FALSE}
    /\ r = 1
    /\ pc = "raised"
    /\ state.daji_aura_stacks = {9}
    /\ state.daji_fox_form_active = {TRUE}

\* ------------------------------------------------------------------------
\* C15: for Daji below 5 stars with the gauge starting at 0, the gauge reads
\* 3, 6, 9 after the buffs-expire phase of rounds 1, 2, 3, and Fox Form is
\* entered, with its bonus hits resolved, in the buffs-expire phase of round
\* 3 and in no earlier round.
\* ------------------------------------------------------------------------
C15_FromZero ==
    /\ cfg.adventurer = "Daji"
    /\ cfg.star < 5
    /\ call.state.daji_aura_stacks \subseteq {0}
    /\ call.state.daji_fox_form_active \subseteq {FALSE}

C15_GaugeSchedule ==
    C15_FromZero =>
        /\ pc # "raised"
        /\ (pc = "charge_reset" /\ r \in 1 .. 3)
           => /\ state.daji_aura_stacks = {3 * r}
              /\ state.daji_fox_form_active = {r = 3}
              /\ (r = 3) = (counts.hits > 3 * cfg.basic_hits_per_round)

\* ------------------------------------------------------------------------
\* C16: entering Fox Form resolves its bonus hits immediately (the run goes
\* on, with demonic hits resolved in the step that set the form); from 5
\* stars the lightning-as-demonic flag is true exactly while Fox Form is
\* active, and the initial form entered at the start of round 1 is active
\* through the hits of round 1 and has ended after its buffs-expire phase.
\* ------------------------------------------------------------------------
C16_Started ==
    /\ cfg.adventurer = "Daji"
    /\ call.state.daji_fox_form_active \subseteq {FALSE}

C16_FoxForm ==
    C16_Started =>
        /\ pc # "raised"
        /\ state.daji_fox_form_active = {TRUE}
           => \E k \in 1 .. Len(trace) :
                 trace[k].ev = "hit" /\ "demonic" \in trace[k].tags
        /\ (cfg.star >= 5 /\ (r > 1 \/ pc # "round_start"))
           => /\ state.lightning_as_demonic = state.daji_fox_form_active
              /\ state.daji_fox_form_active =
                    {r = 1 /\ pc \in {"before_hit", "resolve", "after_hit",
                                      "end_adventurer", "end_skills",
                                      "end_buffs_expire"}}

\* ------------------------------------------------------------------------
\* C17: Nashir's charge level is always 1, 2 or 3 and moves 1 -> 2 -> 3 -> 1,
\* one move per charge-release phase and none elsewhere; that phase resolves
\* exactly 6 thunder hits (bolts of Nashir's, each adding a bolt stack) when
\* the level is 3 on entering it, and no hit when the level is 1 or 2.
\* ------------------------------------------------------------------------
C17_IsNashir(n) == effects[n].kind = "NashirScepterEffect"

C17_State ==
    \A n \in 1 .. Len(effects) :
        C17_IsNashir(n) => effects[n].charge_level \in {1, 2, 3}

C17_Step ==
    \A n \in 1 .. Len(effects) :
        C17_IsNashir(n) =>
            LET level == effects[n].charge_level
                burst == IF level = 3 THEN 6 ELSE 0
            IN  IF pc = "end_charge_release"
                THEN /\ pc' = "round_end"
                     /\ effects'[n].charge_level =
                           (CASE level = 1 -> 2 [] level = 2 -> 3
                              [] level = 3 -> 1)
                     /\ counts'.hits = counts.hits + burst
                     /\ counts'.bolts = counts.bolts + burst
                     /\ effects'[n].bolt_stacks =
                           Min(effects[n].bolt_stacks + burst, 9)
                     /\ \A k \in (Len(trace) + 1) .. Len(trace') :
                           trace'[k].ev = "hit"
                           => /\ trace'[k].by = n
                              /\ trace'[k].tags = {"skill", "lightning", "bolt"}
                ELSE effects'[n].charge_level = level

C17_ChargeLevel == []C17_State /\ [][C17_Step]_vars

\* The release of round 3 is over: six more hits than the round's basic
\* hits and weapon bolt account for, and the level is back to 1
C17_Witness ==
    \E n \in 1 .. Len(effects) :
        /\ C17_IsNashir(n)
        /\ pc = "round_end"
        /\ r = 3
        /\ effects[n].charge_level = 1
        /\ Cardinality({ k \in 1 .. Len(trace) :
                            trace[k].ev = "hit" /\ trace[k].by = n }) >= 7

\* ------------------------------------------------------------------------
\* C18: Nashir's bolt stacks are always between 0 and 9 and never decrease;
\* they increase by exactly 1 (up to the cap) for each thunder hit and by 0
\* for an unconverted lightning bolt; the damage added to dmg_bolt for each
\* of Nashir's bolts is the hit's damage times 1 + 0.2 x the stack count
\* before that bolt's own increment.
\* ------------------------------------------------------------------------
C18_State ==
    \A n \in 1 .. Len(effects) :
        C17_IsNashir(n) => effects[n].bolt_stacks \in 0 .. 9

\* The bolt's context: 36% for lightning, 96% plus the charge level's bonus
\* for thunder
C18_Ctx(st, self, thunder) ==
    [HitContext(DamageType.OTHER_SKILL,
                IF thunder
                THEN 96 + (CASE self.charge_level = 1 -> 15
                             [] self.charge_level = 2 -> 45
                             [] self.charge_level = 3 -> 90)
                ELSE 36) EXCEPT
        !.atk_mult_adventurer = self.adv_atk_mult,
        !.atk_mult_buff = 100 + 10 * st.combo_stacks,
        !.global_bonus = st.breath_global_this,
        !.tags = {"skill", "lightning", "bolt"}]

\* What one bolt adds: acc.stacks is the count before the bolt
C18_After(acc, thunder, res) ==
    [ st |-> res.state,
      stacks |-> Min(acc.stacks + (IF thunder THEN 1 ELSE 0), 9),
      added |-> BigAdd(acc.added,
                       BigDiv(BigMul(res.dmg, 10 + 2 * acc.stacks), 10)) ]

C18_Bolt(acc, self, thunder, st) ==
    C18_After(acc, thunder, compute_hit_damage(C18_Ctx(st, self, thunder), st))

\* One more bolt, converted to thunder when its draw is below 0.5
C18_Draw(acc, self) ==
    IF RngValue(RngNext(acc.st.rng)) < 5000
    THEN C18_Bolt(acc, self, TRUE, [acc.st EXCEPT !.rng = RngNext(@)])
    ELSE C18_Bolt(acc, self, FALSE, [acc.st EXCEPT !.rng = RngNext(@)])

\* b bolts of process_lightning_bolt
RECURSIVE C18_Converted(_, _, _)
C18_Converted(acc, self, b) ==
    IF b = 0 THEN acc ELSE C18_Draw(C18_Converted(acc, self, b - 1), self)

\* One more thunder bolt of the charge release
C18_Thunder(acc, self) == C18_Bolt(acc, self, TRUE, acc.st)

\* b thunder bolts of the charge release
RECURSIVE C18_Released(_, _, _)
C18_Released(acc, self, b) ==
    IF b = 0 THEN acc ELSE C18_Thunder(C18_Released(acc, self, b - 1), self)

C18_Start(n) ==
    [ st |-> state, stacks |-> effects[n].bolt_stacks, added |-> Dmg(0) ]

C18_Agrees(n, acc) ==
    /\ effects'[n].bolt_stacks = acc.stacks
    /\ BigNorm(state'.dmg_bolt) = BigNorm(BigAdd(state.dmg_bolt, acc.added))

\* Every hit of the step is one of Nashir's bolts
C18_OnlyNashir(n) ==
    \A k \in (Len(trace) + 1) .. Len(trace') :
        trace'[k].ev = "hit" => trace'[k].by = n

C18_Step ==
    \A n \in 1 .. Len(effects) :
        C17_IsNashir(n) =>
            /\ effects'[n].bolt_stacks >= effects[n].bolt_stacks
            /\ effects'[n].bolt_stacks - effects[n].bolt_stacks
                  <= counts'.bolts - counts.bolts
            /\ (pc = "end_skills" /\ C18_OnlyNashir(n))
               => C18_Agrees(n, C18_Converted(C18_Start(n), effects[n],
                                              counts'.hits - counts.hits))
            /\ pc = "end_charge_release"
               => C18_Agrees(n, C18_Released(C18_Start(n), effects[n],
                                             counts'.hits - counts.hits))

C18_BoltStacks == []C18_State /\ [][C18_Step]_vars

\* The end-of-round skills of a round have fired Nashir's bolts on a full
\* stack count, with more thunder hits behind than the cap
C18_Witness ==
    \E n \in 1 .. Len(effects) :
        /\ C17_IsNashir(n)
        /\ pc = "end_buffs_expire"
        /\ effects[n].bolt_stacks = 9
        /\ counts.bolts > 9
        /\ \E k \in 1 .. Len(trace) :
              trace[k].ev = "hit" /\ trace[k].by = n

\* ------------------------------------------------------------------------
\* C19: a run visits the rounds 1, 2, ..., rounds in that order, each once
\* (round_index is the round in progress, never one passed), and ends by
\* returning after the last of them, not by an exception.
\* ------------------------------------------------------------------------
C19_RunsReturn ==
    /\ pc # "raised"
    /\ r \in 1 .. (cfg.rounds + 1)
    /\ pc \notin {"round_start", "done"} => state.round_index = r
    /\ (pc = "round_start" /\ r > 1) => state.round_index = r - 1
    /\ (pc = "done" /\ cfg.rounds >= 1) => state.round_index = cfg.rounds

C20_BonusesNonNegative ==
    /\ \A f \in { "base_global_bonus", "base_inbattle_bonus",
                   "base_final_bonus", "base_global_lightning_bonus",
                   "base_global_skill_bonus", "base_global_ninjutsu_bonus",
                   "base_final_skill_bonus", "base_final_lightning_bonus",
                   "base_inbattle_basic_bonus", "base_inbattle_skill_bonus",
                   "base_inbattle_lightning_bonus", "lightning_charge_step",
                   "ezra_final_light_bonus" } :
          cfg[f] >= 0

C20_Step ==
    C20_BonusesNonNegative
    => \A b \in Buckets : BigLeq(state[b], state'[b])

C21_Scenario ==
    /\ ~with_log
    /\ cfg.rounds = 1 /\ cfg.basic_hits_per_round = 1
    /\ effects = <<>>
    /\ adv_atk_mult = 100
    /\ state.base_global_bonus = 0 /\ state.base_inbattle_bonus = 0
    /\ state.base_final_bonus = 0
    /\ state.base_global_skill_bonus = 0
    /\ state.base_global_lightning_bonus = 0
    /\ state.base_global_ninjutsu_bonus = 0
    /\ state.base_final_skill_bonus = 0
    /\ state.base_final_lightning_bonus = 0
    /\ state.base_inbattle_basic_bonus = 0
    /\ state.base_inbattle_skill_bonus = 0
    /\ state.base_inbattle_lightning_bonus = 0
    /\ state.lightning_charge_step = 0

C21_EndToEnd ==
    C21_Scenario =>
        /\ pc # "raised"
        /\ pc = "done" =>
              /\ counts.hits = 1
              /\ BigNorm(state.dmg_basic) = Dmg(12000)
              /\ \A b \in Buckets \ {"dmg_basic"} : BigNorm(state[b]) = <<>>

\* The scenario has run to its return
C21_Witness ==
    /\ C21_Scenario
    /\ pc = "done"
    /\ counts.hits = 1
    /\ state.dmg_basic # <<>>

\* ------------------------------------------------------------------------
\* C22  The debug log is empty for the whole run when debug is off; when
\* debug is on, exactly one record is appended per resolved hit, in
\* resolution order (the records of the current round are the round's
\* resolved hits, one for one, with their type, tags and hit index), and no
\* record is ever removed or changed; for the same configuration and seed the
\* run with debug on ends as the run with debug off did, with the same
\* state (damage buckets, stacks, bonuses, generator), the same effect
\* objects, the same hit counts and the same per-round log.
\* (checked under SpecDebug)
\* ------------------------------------------------------------------------
C22_IsHit(e) == e.ev = "hit"

C22_ThisRound(rec) == rec.round = state.round_index

C22_OnePerHit ==
    LET hits == SelectSeq(trace, C22_IsHit)
        recs == SelectSeq(state.debug_logs, C22_ThisRound)
    IN  /\ Len(state.debug_logs) = counts.hits
        /\ Len(recs) = Len(hits)
        /\ \A k \in 1 .. Len(recs) :
              /\ recs[k].type = hits[k].what
              /\ recs[k].tags = hits[k].tags
              /\ recs[k].hit_index = hits[k].h
        /\ \A k \in 1 .. Len(state.debug_logs) - 1 :
              state.debug_logs[k].round <= state.debug_logs[k + 1].round

C22_State ==
    /\ ~state.debug => state.debug_logs = <<>>
    /\ state.debug => C22_OnePerHit
    /\ (run = 2 /\ pc \in {"done", "raised"}) => Returned = prev

C22_Step ==
    run' = run =>
        /\ state'.debug = state.debug
        /\ IsPrefix(state.debug_logs, state'.debug_logs)
        /\ Len(state'.debug_logs) - Len(state.debug_logs)
             = (IF state.debug THEN counts'.hits - counts.hits ELSE 0)

C22_DebugLog == []C22_State /\ [][C22_Step]_vars

\* A run with debug on, Nashir, the ring, on-hit bolts and the tome has
\* returned with a log of more than 20 records, after the same run with
\* debug off
C22_Witness ==
    /\ run = 2
    /\ pc = "done"
    /\ state.debug
    /\ cfg.weapon = "Nashir"
    /\ cfg.artifact = "ArcaneTome"
    /\ Len(state.debug_logs) > 20
    /\ prev.outcome = "done"
    /\ Returned = prev

\* ------------------------------------------------------------------------
\* C23  simulate_adventurer_with_log, given the same arguments, fresh
\* effects and seed as simulate_adventurer, ends as it did (the same final
\* state, or the same exception) and keeps exactly one record per finished
\* round, in round order; for each category of the records (basic, flame,
\* breath, bolt, other) the records up to round r sum to the bucket's value
\* at the end of round r, so the record of round r holds the damage added to
\* the bucket during round r and the records of a category sum to its final
\* value.  simulate_adventurer keeps no record.
\* (checked under SpecLog)
\* ------------------------------------------------------------------------
RECURSIVE C23_Sum(_, _)
C23_Sum(cat, k) ==
    IF k = 0 THEN <<>>
    ELSE BigAdd(C23_Sum(cat, k - 1), round_log[k][cat])

C23_Bucket ==
    [ basic |-> "dmg_basic", flame |-> "dmg_flame", breath |-> "dmg_breath",
      bolt |-> "dmg_bolt", other |-> "dmg_other" ]

C23_State ==
    /\ ~with_log => round_log = <<>>
    /\ with_log =>
          /\ Len(round_log) = r - 1
          /\ \A k \in 1 .. Len(round_log) : round_log[k].round = k
          /\ pc = "done" => Len(round_log) = cfg.rounds
          /\ pc \in {"round_start", "done"} =>
                \A cat \in DOMAIN C23_Bucket :
                    BigNorm(C23_Sum(cat, Len(round_log)))
                    = BigNorm(state[C23_Bucket[cat]])
    /\ (run = 2 /\ pc \in {"done", "raised"}) =>
          /\ pc = prev.outcome
          /\ Returned.state = prev.state
          /\ effects = prev.effects
          /\ counts = prev.counts

C23_Step ==
    (run' = run /\ with_log) =>
        /\ IsPrefix(round_log, round_log')
        /\ Len(round_log') = Len(round_log) + (IF pc = "round_end" THEN 1 ELSE 0)

C23_RoundLog == []C23_State /\ [][C23_Step]_vars

\* simulate_adventurer_with_log has returned six records for Dragon Girl at
\* 10 stars with Nashir, with breath, flame and bolt damage in them, after
\* simulate_adventurer returned the same state
C23_Witness ==
    /\ run = 2
    /\ pc = "done"
    /\ with_log
    /\ cfg.adventurer = "DG" /\ cfg.star = 10 /\ cfg.weapon = "Nashir"
    /\ Len(round_log) = MaxRounds
    /\ round_log[1].breath # <<>>
    /\ round_log[2].breath = <<>>
    /\ round_log[2].flame # <<>>
    /\ round_log[3].bolt # <<>>
    /\ Returned.state = prev.state

\* ------------------------------------------------------------------------
\* C24  With the Ezra Ring registered, temp_final_lightning_bonus equals the
\* configured final_light_bonus from the round-start hook until the
\* buffs-expire phase of the same round, and equals 0 before the first
\* round, during the lightning-charge reset and the charge-release phase and
\* at the end of every round; it is never anything but 0 or one bonus.  Every
\* lightning hit resolved at the round start (the Ezra bolt), after a basic
\* hit or in the skills phase has the bonus in its final bracket, and every
\* lightning hit of the charge release has not (read from the debug log of
\* the runs that keep one).  Without the ring the field stays 0.
\* ------------------------------------------------------------------------
C24_Rings == { i \in 1 .. Len(effects) : effects[i].kind = "EzraRingEffect" }

C24_Bonus ==
    IF C24_Rings = {} THEN 0
    ELSE effects[CHOOSE i \in C24_Rings : TRUE].final_light_bonus

C24_State ==
    /\ state.temp_final_lightning_bonus \in {0, C24_Bonus}
    /\ pc \in {"before_hit", "resolve", "after_hit", "end_adventurer",
               "end_skills", "end_buffs_expire"}
       => state.temp_final_lightning_bonus = C24_Bonus
    /\ pc \in {"round_start", "charge_reset", "end_charge_release",
               "round_end", "done"}
       => state.temp_final_lightning_bonus = 0

\* the final bracket of a lightning hit resolved in the phase at pc
C24_Final(tags) ==
    state.base_final_bonus
    + (IF "skill" \in tags THEN state.base_final_skill_bonus ELSE 0)
    + state.base_final_lightning_bonus
    + (IF pc = "end_charge_release" THEN 0 ELSE C24_Bonus)

C24_Step ==
    \A k \in Len(state.debug_logs) + 1 .. Len(state'.debug_logs) :
        LET rec == state'.debug_logs[k]
        IN  "lightning" \in rec.tags
            => rec.final_total = C24_Final(rec.tags)

C24_EzraRing == []C24_State /\ [][C24_Step]_vars

\* A run with the ring and the debug log has returned: the log holds an Ezra
\* bolt and a skills-phase bolt with the ring's 20% in their final bracket
\* and a bolt of the charge release of round 3 without it
C24_Witness ==
    /\ pc = "done"
    /\ C24_Rings # {}
    /\ C24_Bonus = 20
    /\ state.debug
    /\ state.temp_final_lightning_bonus = 0
    /\ \E a, b, c \in 1 .. Len(state.debug_logs) :
          /\ a < b /\ b < c
          /\ state.debug_logs[a].round = 3
          /\ "ezra" \in state.debug_logs[a].tags
          /\ state.debug_logs[a].final_total = 26 + 15 + 25 + 20
          /\ state.debug_logs[b].round = 3
          /\ state.debug_logs[b].tags = {"skill", "lightning", "bolt"}
          /\ state.debug_logs[b].final_total = 26 + 15 + 25 + 20
          /\ state.debug_logs[c].round = 3
          /\ state.debug_logs[c].tags = {"skill", "lightning", "bolt"}
          /\ state.debug_logs[c].final_total = 26 + 15 + 25

\* ------------------------------------------------------------------------
\* C25  For Dragon Girl's breath buffs: the round-start hook copies each
\* "next" slot to its "this" slot and leaves the "next" slot 0; a buff
\* granted in round r (odd) is in force during every basic hit of round r+1
\* (the global buff is part of the basic hit's global bonus, the dragon buff
\* of the global bonus of the flame hit the basic hit triggers) and no
\* longer during the basic hits of round r+2, whose "this" slots are 0; in
\* every reachable state each of breath_global_this, breath_dragon_this,
\* breath_global_next, breath_dragon_next is either 0 or exactly one grant.
\* ------------------------------------------------------------------------
C25_Breaths ==
    { i \in 1 .. Len(effects) : effects[i].kind = "DGDragonBreathEffect" }

\* the grants of the registered breath effect
C25_Grant ==
    IF C25_Breaths = {} THEN [ global |-> 0, dragon |-> 0 ]
    ELSE LET e == effects[CHOOSE i \in C25_Breaths : TRUE]
         IN  [ global |-> e.global_bonus_next, dragon |-> e.dragon_bonus_next ]

C25_Slots(gt, dt, gn, dn) ==
    /\ state.breath_global_this = gt
    /\ state.breath_dragon_this = dt
    /\ state.breath_global_next = gn
    /\ state.breath_dragon_next = dn

C25_Stacks ==
    IF \E i \in 1 .. Len(effects) :
          effects[i].kind = "DGDragonStacksEffect" /\ effects[i].enabled
    THEN 5 * state.dragon_stacks ELSE 0

C25_State ==
    LET g == C25_Grant.global
        d == C25_Grant.dragon
        even == state.round_index % 2 = 0
    IN  /\ state.breath_global_this \in {0, g}
        /\ state.breath_global_next \in {0, g}
        /\ state.breath_dragon_this \in {0, d}
        /\ state.breath_dragon_next \in {0, d}
        /\ pc \in {"before_hit", "resolve", "after_hit", "end_adventurer"}
           => IF even THEN C25_Slots(g, d, 0, 0) ELSE C25_Slots(0, 0, 0, 0)
        /\ (pc \in {"end_skills", "end_buffs_expire", "charge_reset",
                    "end_charge_release", "round_end", "done"}
            \/ (pc = "round_start" /\ r > 1))
           => IF even THEN C25_Slots(g, d, 0, 0) ELSE C25_Slots(g, d, g, d)
        /\ (pc = "round_start" /\ r = 1) => C25_Slots(0, 0, 0, 0)
        /\ (pc \in {"resolve", "after_hit"} /\ C25_Breaths # {})
           => ctx.global_bonus = C25_Stacks + (IF even THEN g ELSE 0)

C25_Step ==
    /\ (pc = "round_start" /\ C25_Breaths # {} /\ pc' # "round_start")
       => /\ state'.breath_global_this = state.breath_global_next
          /\ state'.breath_dragon_this = state.breath_dragon_next
          /\ state'.breath_global_next = 0
          /\ state'.breath_dragon_next = 0
    /\ (pc = "after_hit" /\ C25_Breaths # {}) =>
          \A k \in Len(state.debug_logs) + 1 .. Len(state'.debug_logs) :
              LET rec == state'.debug_logs[k]
              IN  rec.type = DamageType.DRAGON_FLAME
                  => rec.global_total
                     = C25_Stacks
                       + (IF state.round_index % 2 = 0
                          THEN C25_Grant.global + C25_Grant.dragon ELSE 0)
                       + state.base_global_bonus
                       + state.base_global_skill_bonus

C26_Of(kind) == { i \in 1 .. Len(effects) : effects[i].kind = kind }

C26_Leo == C26_Of("LeoChargeReleaseNinjutsuEffect")

C26_Nashir == C26_Of("NashirScepterEffect")

\* the charge-release phase of this round has released: Nashir is back at
\* level 1
C26_Released ==
    /\ pc = "round_end"
    /\ C26_Leo # {} /\ C26_Nashir # {}
    /\ \A n \in C26_Nashir : effects[n].charge_level = 1

C26_State ==
    LET hits == SelectSeq(trace, C22_IsHit)
        n == Len(hits)
    IN  /\ C26_Released =>
              /\ n >= 9
              /\ \A k \in n - 8 .. n - 6 :
                    /\ hits[k].by \in C26_Leo
                    /\ hits[k].tags = {"skill", "ninjutsu"}
              /\ \A k \in n - 5 .. n :
                    /\ hits[k].by \in C26_Nashir
                    /\ hits[k].tags = {"skill", "lightning", "bolt"}
              /\ Cardinality({ k \in 1 .. n : hits[k].by \in C26_Leo }) = 3
        /\ (C26_Released
            /\ \A i \in C26_Leo : effects[i].grant_global_ninjutsu)
           => state.dynamic_global_ninjutsu_bonus = 60

C26_Step ==
    state'.dynamic_global_ninjutsu_bonus # state.dynamic_global_ninjutsu_bonus
    => /\ state.dynamic_global_ninjutsu_bonus = 0
       /\ state'.dynamic_global_ninjutsu_bonus = 60

C26_ReleaseNinjutsu == []C26_State /\ [][C26_Step]_vars

\* ------------------------------------------------------------------------
\* C27  No two runs share state: calling simulate_adventurer twice in
\* succession with the same effect list, the same arguments and the same seed
\* yields the same damage buckets both times (or the same exception), and the
\* second call starts with the effect objects as they were built: no
\* counter, charge level, stack or one-time-grant flag of the first run is
\* visible to it.
\* (checked under SpecReuse)
\* ------------------------------------------------------------------------
C27_NoSharedState ==
    (run = 2 /\ cfg.seed # {}) =>
        /\ (pc = "round_start" /\ r = 1)
           => effects = build_effects_from_config(cfg).effects
        /\ pc \in {"done", "raised"} =>
              /\ pc = prev.outcome
              /\ \A b \in Buckets :
                    BigNorm(state[b]) = BigNorm(prev.buckets[b])

\* ------------------------------------------------------------------------
\* C28  When no Nashir weapon is equipped, ExtraEndOfRoundBoltsEffect
\* resolves exactly n_bolts x multi_factor plain lightning bolts (tags
\* skill, lightning, bolt, added to dmg_other) in the skills phase of every
\* round without raising, and each of them is broadcast through
\* on_after_bolt; when Nashir is equipped the same number of bolts is
\* resolved by Nashir's process_lightning_bolt instead.
\* ------------------------------------------------------------------------
C28_Extras == C26_Of("ExtraEndOfRoundBoltsEffect")

\* where the round's trace has the skills-phase call of effect i (0: none)
C28_Call(i) ==
    LET at == { k \in 1 .. Len(trace) :
                  /\ trace[k].ev = "call" /\ trace[k].by = i
                  /\ trace[k].what = "on_end_round_skills" }
    IN  IF at = {} THEN 0 ELSE CHOOSE k \in at : TRUE

\* the events of that call: up to the next call of the loop
C28_Events(i) ==
    LET k == C28_Call(i)
        later == { j \in k + 1 .. Len(trace) : trace[j].ev = "call" }
        stop == IF later = {} THEN Len(trace) + 1
                ELSE CHOOSE j \in later : \A j2 \in later : j <= j2
    IN  { j \in k + 1 .. stop - 1 : TRUE }

C28_Count(i, ev) == Cardinality({ j \in C28_Events(i) : trace[j].ev = ev })

C28_ExtraBolts ==
    \A i \in C28_Extras :
        LET self == effects[i]
            total == self.n_bolts * self.multi_factor
        IN  /\ \A j \in C28_Events(i) : trace[j].ev # "raise"
            /\ (pc \in {"end_buffs_expire", "charge_reset",
                        "end_charge_release", "round_end"}
                /\ C28_Call(i) # 0)
               => /\ C28_Count(i, "hit") = total
                  /\ C28_Count(i, "broadcast") = total
                  /\ \A j \in C28_Events(i) :
                        trace[j].ev = "hit" =>
                          /\ {"skill", "lightning", "bolt"} \subseteq trace[j].tags
                          /\ trace[j].by = (IF self.nashir = 0 THEN i
                                            ELSE self.nashir)
            /\ pc \in {"end_buffs_expire", "charge_reset",
                       "end_charge_release", "round_end"}
               => C28_Call(i) # 0

\* ------------------------------------------------------------------------
\* C29  For every supported adventurer (DG, Leo, Daji), a configuration with
\* combo_mastery = true makes build_effects_from_config register a
\* ComboMasteryEffect, so that combo_stacks is greater than 0 once the first
\* round has run with at least 2 basic hits; with combo_mastery = false
\* combo_stacks stays 0 for the whole run.
\* ------------------------------------------------------------------------
C29_ComboMasteryRegistered ==
    cfg.adventurer \in {"DG", "Leo", "Daji"} =>
        /\ cfg.combo_mastery =>
              /\ C26_Of("ComboMasteryEffect") # {}
              /\ (cfg.basic_hits_per_round >= 2
                  /\ (r >= 2 \/ pc = "round_end"))
                 => state.combo_stacks > 0
        /\ ~cfg.combo_mastery =>
              /\ C26_Of("ComboMasteryEffect") = {}
              /\ state.combo_stacks = 0

\* ------------------------------------------------------------------------
\* C30  Dragon Breath (DG 4 stars and above) is resolved exactly once in the
\* adventurer phase of every odd round and never in an even round, in
\* another phase or below 4 stars; the buffs it grants are added to the
\* "this" slots in the same call, so the bolts of the skills phase and of
\* the charge release of that same round have the breath global buff in
\* their global bracket (read from the debug log of the runs that keep
\* one), while the breath hit itself is computed without the buff it grants:
\* its global bonus is 0.05 x dragon_stacks alone.
\* ------------------------------------------------------------------------
C30_IsBreath(e) == e.ev = "hit" /\ e.what = DamageType.DRAGON_BREATH

\* breath is due in the round in progress
C30_Due ==
    /\ C25_Breaths # {}
    /\ \A i \in C25_Breaths : effects[i].enabled
    /\ state.round_index % 2 = 1

\* the breath hit as the claim has it
C30_Ctx ==
    [HitContext(DamageType.DRAGON_BREATH,
                effects[CHOOSE i \in C25_Breaths : TRUE].coeff) EXCEPT
        !.atk_mult_adventurer = 115,
        !.global_bonus = C25_Stacks,
        !.tags = {"skill", "dragon_flame"}]

C30_State ==
    LET breaths == SelectSeq(trace, C30_IsBreath)
    IN  /\ Len(breaths) <= 1
        /\ \A k \in 1 .. Len(breaths) : breaths[k].by \in C25_Breaths
        /\ Len(breaths) = 1
           <=> (C30_Due /\ (pc \in {"end_skills", "end_buffs_expire",
                                    "charge_reset", "end_charge_release",
                                    "round_end", "done", "raised"}
                            \/ (pc = "round_start" /\ r > 1))
                /\ ~(pc = "raised" /\ trace[Len(trace) - 2].ev = "raise"))
        /\ (cfg.adventurer = "DG" /\ cfg.star >= 4) <=>
             (C25_Breaths # {} /\ \A i \in C25_Breaths : effects[i].enabled)

C30_NewBreaths ==
    Len(SelectSeq(trace', C30_IsBreath))
    - (IF pc = "round_start" THEN 0 ELSE Len(SelectSeq(trace, C30_IsBreath)))

C30_Step ==
    /\ C30_NewBreaths = (IF pc = "end_adventurer" /\ C30_Due /\ pc' # "raised"
                         THEN 1 ELSE 0)
    /\ (pc = "end_adventurer" /\ C30_Due /\ pc' # "raised") =>
          /\ BigNorm(BigSub(state'.dmg_breath, state.dmg_breath))
             = BigNorm(HitDamage(C30_Ctx, state))
          /\ state'.breath_global_this
             = state.breath_global_this + C25_Grant.global
          /\ state'.breath_dragon_this
             = state.breath_dragon_this + C25_Grant.dragon
          /\ state'.breath_global_this = C25_Grant.global
    /\ (pc \in {"end_skills", "end_charge_release"} /\ C25_Breaths # {}) =>
          \A k \in Len(state.debug_logs) + 1 .. Len(state'.debug_logs) :
              LET rec == state'.debug_logs[k]
              IN  "bolt" \in rec.tags
                  => rec.global_total
                     = C25_Grant.global + state.base_global_bonus
                       + state.base_global_skill_bonus
                       + state.base_global_lightning_bonus

C30_DragonBreath == []C30_State /\ [][C30_Step]_vars

\* Dragon Girl at 10 stars with Nashir and the debug log, at the end of
\* round 3: one breath hit in the round, computed on 9 dragon stacks alone,
\* and after it a bolt of the charge release with the breath's 30% in its
\* global bracket
C30_Witness ==
    /\ pc = "round_end"
    /\ state.round_index = 3
    /\ cfg.adventurer = "DG" /\ cfg.star = 10
    /\ state.debug
    /\ Len(SelectSeq(trace, C30_IsBreath)) = 1
    /\ \E a, b \in 1 .. Len(state.debug_logs) :
          /\ a < b
          /\ state.debug_logs[a].round = 3
          /\ state.debug_logs[a].type = DamageType.DRAGON_BREATH
          /\ state.debug_logs[a].global_total = 45 + 16
          /\ state.debug_logs[b].round = 3
          /\ b = Len(state.debug_logs)
          /\ "bolt" \in state.debug_logs[b].tags
          /\ state.debug_logs[b].global_total = 30 + 16 + 30

\* ------------------------------------------------------------------------
\* C31  For Dragon Girl at 5 stars and above, dragon_stacks gains 1 at every
\* round start and 1 after every basic hit, up to 20; it is always between
\* 0 and 20 and never decreases; below 5 stars (and for the other
\* adventurers) it stays 0.  The stack bonus in a basic hit's global bonus
\* is 0.05 x the stacks before that hit's own gain, and no lightning bolt
\* has it: a bolt's global bracket (debug log) is the breath global buff
\* and the base bonuses alone.
\* ------------------------------------------------------------------------
C31_On == cfg.adventurer = "DG" /\ cfg.star >= 5

C31_State ==
    /\ state.dragon_stacks \in 0 .. 20
    /\ ~C31_On => state.dragon_stacks = 0
    /\ (cfg.adventurer = "DG" /\ pc \in {"resolve", "after_hit"}) =>
          /\ ctx.damage_type = DamageType.BASIC
          /\ ctx.global_bonus
             = (IF C31_On THEN 5 * state.dragon_stacks ELSE 0)
               + state.breath_global_this

C31_Step ==
    /\ state'.dragon_stacks >= state.dragon_stacks
    /\ state'.dragon_stacks
       = (IF C31_On /\ pc \in {"round_start", "after_hit"}
          THEN Min(state.dragon_stacks + 1, 20)
          ELSE state.dragon_stacks)
    /\ cfg.adventurer = "DG" =>
          \A k \in Len(state.debug_logs) + 1 .. Len(state'.debug_logs) :
              LET rec == state'.debug_logs[k]
              IN  /\ rec.type = DamageType.BASIC
                     => rec.global_total
                        = 5 * state.dragon_stacks + state.breath_global_this
                          + state.base_global_bonus
                  /\ IsBolt(rec.tags)
                     => rec.global_total
                        = state'.breath_global_this
                          + state.base_global_bonus
                          + state.base_global_skill_bonus
                          + state.base_global_lightning_bonus

C31_DragonStacks == []C31_State /\ [][C31_Step]_vars

\* Dragon Girl at 5 stars, hit 6 of round 3: 20 stacks (3 round starts and
\* 19 hits made 22 gains), a basic hit with 100% of stack bonus, and bolts
\* resolved in the run
C31_Witness ==
    /\ cfg \in StackConfigs
    /\ pc = "resolve"
    /\ state.round_index = 3 /\ h = 6
    /\ state.dragon_stacks = 20
    /\ ctx.global_bonus = 100
    /\ counts.bolts > 0

\* ------------------------------------------------------------------------
\* C32  For Dragon Girl, every basic hit is followed by exactly one
\* dragon-flame hit, added to dmg_flame, and the flame hit's attack buff is
\* 1 + 0.10 x the combo stacks after ComboMasteryEffect has applied the
\* increment of this basic hit: ComboMasteryEffect stands before
\* DGDragonFlameOnHitEffect in the effect list.
\* ------------------------------------------------------------------------
C32_IsFlame(e) == e.ev = "hit" /\ e.what = DamageType.DRAGON_FLAME

C32_IsBasic(e) == e.ev = "hit" /\ e.by = 0 /\ e.what = DamageType.BASIC

C32_Combos == { i \in DOMAIN effects : effects[i].kind = "ComboMasteryEffect" }

C32_Flames == { i \in DOMAIN effects :
                  effects[i].kind = "DGDragonFlameOnHitEffect" }

\* the flame hit of the basic hit in ctx, on the combo stacks of the state
\* after the after-hit scan
C32_Ctx ==
    [HitContext(DamageType.DRAGON_FLAME,
                effects[CHOOSE i \in C32_Flames : TRUE].coeff) EXCEPT
        !.hit_index_in_round = ctx.hit_index_in_round,
        !.atk_mult_adventurer = 115,
        !.atk_mult_buff = 100 + 10 * state'.combo_stacks,
        !.global_bonus = ctx.global_bonus + state.breath_dragon_this,
        !.tags = {"skill", "dragon_flame"}]

C32_State ==
    /\ (cfg.adventurer = "DG") <=> (C32_Flames # {})
    /\ \A i \in C32_Combos, j \in C32_Flames : i < j
    /\ Len(SelectSeq(trace, C32_IsFlame))
       = (IF cfg.adventurer = "DG"
          THEN Len(SelectSeq(trace, C32_IsBasic))
               - (IF pc = "after_hit" THEN 1 ELSE 0)
          ELSE 0)
    /\ cfg.adventurer # "DG" => state.dmg_flame = Dmg(0)

C32_Step ==
    IF pc = "after_hit" /\ cfg.adventurer = "DG"
    THEN /\ state'.combo_stacks
            = (IF C32_Combos # {} /\ ctx.is_combo
               THEN Min(state.combo_stacks + 1, 99) ELSE state.combo_stacks)
         /\ \E k \in Len(trace) + 1 .. Len(trace') - 1 :
               /\ C32_IsFlame(trace'[k])
               /\ trace'[k].by \in C32_Flames
               /\ trace'[k + 1] = Ev("add", trace'[k].by, "dmg_flame", 0, {})
               /\ \A j \in Len(trace) + 1 .. Len(trace') :
                     C32_IsFlame(trace'[j]) => j = k
         /\ BigNorm(BigSub(state'.dmg_flame, state.dmg_flame))
            = BigNorm(HitDamage(C32_Ctx, state))
    ELSE BigNorm(state'.dmg_flame) = BigNorm(state.dmg_flame)

C32_DragonFlame == []C32_State /\ [][C32_Step]_vars

\* Dragon Girl with Combo Mastery after the third hit of round 1: three
\* basic hits, three flame hits, two combo stacks
C32_Witness ==
    /\ cfg.adventurer = "DG" /\ cfg.combo_mastery
    /\ pc = "before_hit" /\ h = 4
    /\ state.round_index = 1
    /\ state.combo_stacks = 2
    /\ Len(SelectSeq(trace, C32_IsFlame)) = 3
    /\ BigLess(Dmg(0), state.dmg_flame)

\* ------------------------------------------------------------------------
\* C33  Leo's Hurricane resolves exactly 5 ninjutsu hits in the adventurer
\* phase of exactly the rounds 2, 5, 8, ... at 4 to 6 stars (coefficient
\* 2.0) and of exactly the rounds 1, 3, 5, ... at 7 stars and above
\* (coefficient 4.0), and in no other round or phase; below 4 stars (and
\* for the other adventurers) there is no Hurricane.
\* ------------------------------------------------------------------------
C33_Hurricanes == { i \in DOMAIN effects :
                      effects[i].kind = "LeoHurricaneEffect" }

C33_IsHurricane(e) == e.ev = "hit" /\ e.by \in C33_Hurricanes

C33_Coeff == IF cfg.star <= 6 THEN 200 ELSE 400

\* Hurricane is due in the round in progress
C33_Due ==
    /\ cfg.adventurer = "Leo"
    /\ \/ cfg.star \in 4 .. 6 /\ state.round_index % 3 = 2
       \/ cfg.star >= 7 /\ state.round_index % 2 = 1

C33_Ctx ==
    [HitContext(DamageType.OTHER_SKILL, C33_Coeff) EXCEPT
        !.atk_mult_adventurer = 110,
        !.global_bonus = state.breath_global_this,
        !.tags = {"skill", "ninjutsu"}]

C33_State ==
    LET hits == SelectSeq(trace, C33_IsHurricane)
    IN  /\ (cfg.adventurer = "Leo" /\ cfg.star >= 4)
           <=> (C33_Hurricanes # {})
        /\ \A i \in C33_Hurricanes : effects[i].coeff = C33_Coeff
        /\ Len(hits)
           = (IF C33_Due /\ (pc \in {"end_skills", "end_buffs_expire",
                                     "charge_reset", "end_charge_release",
                                     "round_end", "done"}
                             \/ (pc = "round_start" /\ r > 1))
              THEN 5 ELSE 0)
        /\ \A k \in 1 .. Len(hits) :
              /\ hits[k].what = DamageType.OTHER_SKILL
              /\ hits[k].tags = {"skill", "ninjutsu"}

C33_Step ==
    (pc = "end_adventurer" /\ cfg.adventurer = "Leo") =>
        /\ Len(SelectSeq(trace', C33_IsHurricane))
           = (IF C33_Due THEN 5 ELSE 0)
        /\ BigNorm(BigSub(state'.dmg_other, state.dmg_other))
           = (IF C33_Due THEN BigNorm(BigMul(HitDamage(C33_Ctx, state), 5))
              ELSE Dmg(0))

C33_Hurricane == []C33_State /\ [][C33_Step]_vars

\* Leo at 4 stars after the adventurer phase of round 5: five Hurricane hits
\* in the round
C33_Witness ==
    /\ cfg.adventurer = "Leo" /\ cfg.star = 4
    /\ pc = "end_skills"
    /\ state.round_index = 5
    /\ Len(SelectSeq(trace, C33_IsHurricane)) = 5

\* ------------------------------------------------------------------------
\* C34  For Leo at 5 stars and above, lightning_as_ninjutsu is true from
\* the first round start on, and every lightning-tagged hit resolved in the
\* run (Ezra bolt, Nashir bolts and release bolts, generic lightning-skill
\* bolts, Arcane Tome hits) also carries the "ninjutsu" tag; below 5 stars
\* no lightning hit carries it.
\* ------------------------------------------------------------------------
C34_Leo5 == cfg.adventurer = "Leo" /\ cfg.star >= 5

C34_IsLightning(e) == e.ev = "hit" /\ "lightning" \in e.tags

C34_Started == pc # "round_start" \/ r > 1

C34_Flag ==
    (cfg.adventurer = "Leo" /\ C34_Started)
        => (state.lightning_as_ninjutsu <=> C34_Leo5)

C34_LightningIsNinjutsu ==
    /\ C34_Flag
    /\ \A k \in 1 .. Len(trace) :
          C34_IsLightning(trace[k])
              => ("ninjutsu" \in trace[k].tags <=> C34_Leo5)

\* ------------------------------------------------------------------------
\* C35  For Daji at 4 stars and above, every bolt-tagged hit (Ezra, Nashir,
\* generic lightning) resolved while Fox Form is active has its coefficient
\* raised by the Fox Form bolt bonus (+0.6), and no bolt resolved outside
\* Fox Form has it raised.  Read from the debug log: the coefficient of a
\* bolt is its base coefficient, plus the bonus exactly in Fox Form.
\* ------------------------------------------------------------------------
C35_InFox == cfg.star >= 4 /\ state'.daji_fox_form_active = {TRUE}

\* what the bolt's producer sets: Ezra 100%, Nashir lightning 36%, thunder
\* 96% + the bonus of the charge level
C35_Base(rec) ==
    IF "ezra" \in rec.tags THEN { 100 }
    ELSE { 36 } \cup { 96 + thunder_bonus_by_level(l) : l \in 1 .. 3 }

C35_Step ==
    \A k \in Len(state.debug_logs) + 1 .. Len(state'.debug_logs) :
        LET rec == state'.debug_logs[k]
        IN  "bolt" \in rec.tags
            => rec.coeff \in { c + (IF C35_InFox THEN 60 ELSE 0) :
                                 c \in C35_Base(rec) }

C36_Of(kind) == { i \in DOMAIN effects : effects[i].kind = kind }

\* the bucket the claim gives a resolved hit, {} for the hits it leaves out
C36_Bucket(e) ==
    IF "artifact" \in e.tags THEN { "dmg_artifact" }
    ELSE IF e.by \in C36_Of("LeoMultiHitNinjutsuEffect")
            /\ "ninjutsu" \in e.tags THEN { "dmg_ninjutsu" }
    ELSE IF e.by \in C36_Of("LeoHurricaneEffect") THEN { "dmg_hurricane" }
    ELSE IF e.by \in C36_Of("LeoChargeReleaseNinjutsuEffect")
    THEN { "dmg_ultimate" }
    ELSE {}

C36_LeoBuckets ==
    cfg.adventurer = "Leo" =>
        \A k \in 1 .. Len(trace) - 1 :
            trace[k].ev = "hit" =>
                \A b \in C36_Bucket(trace[k]) :
                    /\ trace[k + 1].ev = "add"
                    /\ trace[k + 1].what = b
                    /\ BigLess(Dmg(0), state[b])

\* ------------------------------------------------------------------------
\* C37  BasicAttackBoltEffect makes exactly one RNG draw per original basic
\* hit (also for Leo, whose sub-hits do not trigger it) and, when the draw
\* is below its chance, produces exactly 2 x multi_factor bolts on the
\* combo stacks that already include that hit's increment; the chance is
\* 0.45 at level 1 and 0.75 at any other positive level, 0.8336 and 0.984
\* for Leo, and the effect is not registered at level 0 or below.
\* ------------------------------------------------------------------------
C37_OnHit == C36_Of("BasicAttackBoltEffect")

C37_Chance ==
    IF cfg.adventurer = "Leo"
    THEN (IF cfg.basic_atk_bolt_level = 1 THEN 8336 ELSE 9840)
    ELSE (IF cfg.basic_atk_bolt_level = 1 THEN 4500 ELSE 7500)

\* the generator after n draws
RECURSIVE C37_After(_, _)
C37_After(rng, n) == IF n = 0 THEN rng ELSE C37_After(RngNext(rng), n - 1)

\* the draws of Leo's three parts, made before the effect is called
C37_LeoDraws ==
    IF \E i \in C36_Of("LeoMultiHitNinjutsuEffect") : effects[i].has_2star
    THEN 3 ELSE 0

C37_Fires == RngValue(C37_After(state.rng, C37_LeoDraws + 1)) < C37_Chance

C37_Bolts == IF C37_Fires THEN 2 * cfg.multiple_lightning_factor ELSE 0

C37_Registered ==
    /\ C37_OnHit # {} <=> cfg.basic_atk_bolt_level > 0
    /\ Cardinality(C37_OnHit) <= 1
    /\ \A i \in C37_OnHit :
          /\ effects[i].chance = C37_Chance
          /\ effects[i].multi_factor = cfg.multiple_lightning_factor

C37_Step ==
    (pc = "after_hit" /\ C37_OnHit # {}) =>
        LET new == { k \in Len(trace) + 1 .. Len(trace') : TRUE }
        IN  /\ Cardinality({ k \in new :
                               /\ trace'[k].ev = "call"
                               /\ trace'[k].by \in C37_OnHit
                               /\ trace'[k].what = "on_after_hit" }) = 1
            /\ Cardinality({ k \in new : /\ trace'[k].ev = "hit"
                                          /\ IsBolt(trace'[k].tags) })
               = C37_Bolts
            \* Leo's draws, the effect's one draw, and one conversion draw
            \* of Nashir for each bolt
            /\ state'.rng
               = C37_After(state.rng,
                           C37_LeoDraws + 1
                           + (IF cfg.weapon = "Nashir" THEN C37_Bolts ELSE 0))
            /\ \A k \in Len(state.debug_logs) + 1 .. Len(state'.debug_logs) :
                  IsBolt(state'.debug_logs[k].tags)
                  => state'.debug_logs[k].atk_eff
                     = BigMul(BigMul(BigOfNat(ATK_BASE), adv_atk_mult),
                              100 + 10 * state'.combo_stacks)

C37_OnHitBolts == []C37_Registered /\ [][C37_Step]_vars

\* ------------------------------------------------------------------------
\* C38  FiveBoltsAfterRound6Effect produces no bolt in rounds 1 to 5 and
\* exactly 5 x multi_factor bolts in the skills phase of every round from 6
\* onward.
\* ------------------------------------------------------------------------
C38_Fives == C36_Of("FiveBoltsAfterRound6Effect")

C38_Registered ==
    /\ C38_Fives # {} <=> cfg.five_bolts_from_round6
    /\ \A i \in C38_Fives :
          /\ effects[i].n_bolts = 5
          /\ effects[i].multi_factor = cfg.multiple_lightning_factor

C38_FiveBolts ==
    /\ C38_Registered
    /\ \A i \in C38_Fives :
          /\ C28_Call(i) # 0 <=>
                (pc \in {"end_buffs_expire", "charge_reset",
                         "end_charge_release", "round_end", "done"}
                 \/ (pc = "round_start" /\ r > 1)
                 \/ (pc = "raised" /\ C28_Call(i) # 0))
          /\ C28_Call(i) # 0 =>
                /\ C28_Count(i, "hit")
                   = (IF state.round_index < 6 THEN 0
                      ELSE 5 * cfg.multiple_lightning_factor)
                /\ \A j \in C28_Events(i) :
                      trace[j].ev = "hit" => IsBolt(trace[j].tags)

\* ------------------------------------------------------------------------
\* C39  multiple_lightning_factor multiplies only the number of normal
\* lightning bolts the lightning skills hand to Nashir's conversion (extra
\* end-of-round bolts, on-hit bolts, five bolts from round 6); Nashir's own
\* per-round bolt is always 1, the Ezra bolt is always exactly 1 per round
\* and is never converted (no conversion draw, coefficient 100%), and the
\* charge-release burst is always exactly 6, whatever the factor.
\* ------------------------------------------------------------------------
C39_SkillsDone ==
    \/ pc \in {"end_buffs_expire", "charge_reset", "end_charge_release",
               "round_end", "done"}
    \/ (pc = "round_start" /\ r > 1)

C39_IsEzra(e) == e.ev = "hit" /\ "ezra" \in e.tags

C39_State ==
    /\ (cfg.weapon = "Nashir" /\ C39_SkillsDone) =>
          /\ \A n \in C36_Of("NashirScepterEffect") : C28_Count(n, "hit") = 1
          /\ \A i \in C28_Extras :
                C28_Count(i, "hit")
                = cfg.extra_end_bolts_count * cfg.multiple_lightning_factor
          /\ \A i \in C38_Fives :
                C28_Count(i, "hit")
                = (IF state.round_index < 6 THEN 0
                   ELSE 5 * cfg.multiple_lightning_factor)
    /\ Len(SelectSeq(trace, C39_IsEzra))
       = (IF C24_Rings # {} /\ C34_Started THEN 1 ELSE 0)
    /\ \A k \in 1 .. Len(state.debug_logs) :
          "ezra" \in state.debug_logs[k].tags
              => state.debug_logs[k].coeff = 100

C39_NewHits ==
    Cardinality({ k \in (IF pc = "round_start" THEN 1 ELSE Len(trace) + 1)
                         .. Len(trace') : trace'[k].ev = "hit" })

C39_Step ==
    /\ pc = "round_start" =>
          /\ state'.rng = state.rng
          /\ \A n \in C36_Of("NashirScepterEffect") :
                effects'[n].bolt_stacks = effects[n].bolt_stacks
          /\ C39_NewHits = (IF C24_Rings # {} THEN 1 ELSE 0)
    /\ (pc = "after_hit" /\ cfg.weapon = "Nashir") =>
          Cardinality({ k \in Len(trace) + 1 .. Len(trace') :
                          trace'[k].ev = "hit" /\ IsBolt(trace'[k].tags) })
          = (IF C37_OnHit # {} THEN C37_Bolts ELSE 0)
    /\ pc = "end_charge_release" =>
          C39_NewHits
          = (IF \E n \in C36_Of("NashirScepterEffect") :
                   effects[n].charge_level = 3
             THEN 6 ELSE 0)

C39_MultipleLightning == []C39_State /\ [][C39_Step]_vars

\* The full outfit with factor 2 at the end of round 6: the weapon's one
\* bolt, 6 extra bolts and 10 of the five-bolts skill in the skills phase,
\* one Ezra bolt, and the release of exactly 6 bolts
C39_Witness ==
    /\ pc = "round_end"
    /\ state.round_index = 6
    /\ cfg.multiple_lightning_factor = 2
    /\ \A n \in C36_Of("NashirScepterEffect") : C28_Count(n, "hit") = 1
    /\ \E i \in C28_Extras : C28_Count(i, "hit") = 6
    /\ \E i \in C38_Fives : C28_Count(i, "hit") = 10
    /\ Len(SelectSeq(trace, C39_IsEzra)) = 1
    /\ \E n \in C36_Of("NashirScepterEffect"), c \in 1 .. Len(trace) :
          /\ trace[c].ev = "call" /\ trace[c].by = n
          /\ trace[c].what = "on_end_round_charge_release"
          /\ Cardinality({ k \in c + 1 .. Len(trace) :
                             trace[k].ev = "hit" /\ trace[k].by = n }) = 6

\* ------------------------------------------------------------------------
\* C40  Every hit resolved by compute_hit_damage during a run has its
\* damage added to exactly one damage bucket exactly once, immediately
\* after its resolution and before any other hit is resolved; no bucket is
\* ever changed except by such an addition.  In the runs that keep the
\* debug log with Nashir equipped, the buckets other than dmg_bolt (which
\* takes every bolt, Nashir's with the bolt multiplier) grow in each step
\* by the sum of the damages logged for the step's other hits.
\* ------------------------------------------------------------------------
C40_State ==
    \A k \in 1 .. Len(trace) :
        /\ trace[k].ev = "hit" =>
              /\ k < Len(trace)
              /\ trace[k + 1].ev = "add"
              /\ trace[k + 1].by = trace[k].by
              /\ trace[k + 1].what \in Buckets
        /\ trace[k].ev = "add" => (k > 1 /\ trace[k - 1].ev = "hit")

C40_New == (IF pc = "round_start" THEN 1 ELSE Len(trace) + 1) .. Len(trace')

\* the damage logged for records from + 1 .. Len(logs), the bolts apart
RECURSIVE C40_Logged(_, _)
C40_Logged(logs, from) ==
    IF from >= Len(logs) THEN Dmg(0)
    ELSE BigAdd(IF "bolt" \in logs[from + 1].tags
                THEN Dmg(0) ELSE logs[from + 1].damage,
                C40_Logged(logs, from + 1))

RECURSIVE C40_Total(_, _)
C40_Total(st, bs) ==
    IF bs = {} THEN Dmg(0)
    ELSE LET b == CHOOSE x \in bs : TRUE
         IN  BigAdd(st[b], C40_Total(st, bs \ {b}))

C40_Step ==
    /\ \A b \in Buckets :
          (\A k \in C40_New : ~(trace'[k].ev = "add" /\ trace'[k].what = b))
              => state'[b] = state[b]
    /\ counts'.hits - counts.hits
       = Cardinality({ k \in C40_New : trace'[k].ev = "hit" })
    /\ counts'.hits - counts.hits
       = Cardinality({ k \in C40_New : trace'[k].ev = "add" })
    /\ (state.debug /\ cfg.weapon = "Nashir") =>
          BigNorm(BigSub(C40_Total(state', Buckets \ {"dmg_bolt"}),
                         C40_Total(state, Buckets \ {"dmg_bolt"})))
          = BigNorm(C40_Logged(state'.debug_logs, Len(state.debug_logs)))

C40_OneBucketOnce == []C40_State /\ [][C40_Step]_vars

\* Dragon Girl at 10 stars with the full outfit and the debug log at the
\* end of the run: basic, flame, breath and bolt hits resolved and added
C40_Witness ==
    /\ pc = "done"
    /\ state.debug
    /\ cfg.adventurer = "DG"
    /\ counts.hits >= 40
    /\ Len(state.debug_logs) = counts.hits
    /\ \A b \in {"dmg_basic", "dmg_flame", "dmg_breath", "dmg_bolt"} :
          BigLess(Dmg(0), state[b])
    /\ \E k \in 1 .. Len(trace) - 1 :
          trace[k].ev = "hit" /\ trace[k + 1].ev = "add"

====
